---- MODULE Spec2Model ----
(***************************************************************************)
(* APIM delegation function app: the delegation handler (signature check   *)
(* and redirect to the identity provider), the shared OIDC helper          *)
(* (configuration, discovery, authorization URL) and the auth-callback     *)
(* handler (state decoding, freshness check, token exchange, provisioning).*)
(*                                                                         *)
(* Text that the code converts (the canonical string, the JSON state, its  *)
(* base64 form) is a sequence of character codes; configuration values     *)
(* that the code only passes around are TLA+ strings.                      *)
(***************************************************************************)
EXTENDS Integers, Sequences, FiniteSets, TLC

\* ------------------------------------------------------------------ text

SeqsUpTo(S, n) == UNION {[1..k -> S] : k \in 0..n}

\* A query parameter: req.query.x is undefined or a string.
Absent == [present |-> FALSE, text |-> <<>>]
Str(s) == [present |-> TRUE, text |-> s]

\* "undefined", what string concatenation makes of an absent parameter
UndefinedText == <<117, 110, 100, 101, 102, 105, 110, 101, 100>>

\* an empty string taken for a value
TruthyIfPresent(v) == v.present

\* JS truthiness of an optional string
Truthy(v) == v.present /\ v.text # <<>>

\* ToString of an optional string inside a + concatenation
ToStr(v) == IF v.present THEN v.text ELSE UndefinedText

\* the concatenation of the sequences ss[lo], ..., ss[hi]
RECURSIVE ConcatRange(_, _, _)
ConcatRange(ss, lo, hi) ==
    IF lo > hi THEN <<>>
    ELSE IF lo = hi THEN ss[lo]
    ELSE LET mid == (lo + hi) \div 2
         IN  ConcatRange(ss, lo, mid) \o ConcatRange(ss, mid + 1, hi)

ConcatAll(ss) == ConcatRange(ss, 1, Len(ss))

\* Buffer.from(str) / hmac.update(str, 'utf8'): UTF-8 bytes of code points below 0x800
Utf8Encode(s) ==
    ConcatAll([i \in 1..Len(s) |->
                 IF s[i] < 128 THEN <<s[i]>>
                 ELSE <<192 + (s[i] \div 64), 128 + (s[i] % 64)>>])

\* s.indexOf(p): where p first occurs in s, counted from 0, and -1 when it does not
IndexOf(s, p) ==
    LET hits == {i \in 1..(Len(s) - Len(p) + 1) : SubSeq(s, i, i + Len(p) - 1) = p}
    IN  IF hits = {} THEN -1 ELSE (CHOOSE i \in hits : \A j \in hits : i <= j) - 1

\* s.startsWith(p)
StartsWith(s, p) == Len(p) <= Len(s) /\ SubSeq(s, 1, Len(p)) = p

\* s.replace(p, r) for a string p and an r without '$': the first occurrence only
ReplaceFirst(s, p, r) ==
    LET i == IndexOf(s, p)
    IN  IF i = -1 THEN s ELSE SubSeq(s, 1, i) \o r \o SubSeq(s, i + Len(p) + 1, Len(s))

UpperHexDigit(v) == IF v < 10 THEN 48 + v ELSE 65 + (v - 10)

\* the characters encodeURIComponent leaves alone: A-Z a-z 0-9 - _ . ! ~ * ' ( )
UriUnreserved == (65..90) \cup (97..122) \cup (48..57) \cup {45, 95, 46, 33, 126, 42, 39, 40, 41}

\* encodeURIComponent(s)
EncodeURIComponent(s) ==
    LET pct(b) == <<37, UpperHexDigit(b \div 16), UpperHexDigit(b % 16)>>
        enc(c) == LET u == Utf8Encode(<<c>>) IN ConcatAll([k \in 1..Len(u) |-> pct(u[k])])
    IN  ConcatAll([i \in 1..Len(s) |-> IF s[i] \in UriUnreserved THEN <<s[i]>> ELSE enc(s[i])])

\* buf.toString(): UTF-8 decoding, U+FFFD for whatever is no 1- or 2-byte sequence
Utf8Decode(b) ==
    LET lead(i) == i >= 1 /\ i <= Len(b) /\ b[i] \in 194..223
        cont(i) == i >= 1 /\ i <= Len(b) /\ b[i] \in 128..191
    IN  ConcatAll([i \in 1..Len(b) |->
                     IF b[i] < 128 THEN <<b[i]>>
                     ELSE IF lead(i) /\ cont(i + 1)
                          THEN <<(b[i] - 192) * 64 + (b[i + 1] - 128)>>
                     ELSE IF cont(i) /\ lead(i - 1) THEN <<>>
                     ELSE <<65533>>])

\* ---------------------------------------------------------------- base64

B64Char(v) ==
    IF v < 26 THEN 65 + v
    ELSE IF v < 52 THEN 97 + (v - 26)
    ELSE IF v < 62 THEN 48 + (v - 52)
    ELSE IF v = 62 THEN 43 ELSE 47

\* -1 for a character outside the alphabet ('-' and '_' are accepted as 62 and 63)
B64Val(c) ==
    IF c \in 65..90 THEN c - 65
    ELSE IF c \in 97..122 THEN c - 97 + 26
    ELSE IF c \in 48..57 THEN c - 48 + 52
    ELSE IF c = 43 \/ c = 45 THEN 62
    ELSE IF c = 47 \/ c = 95 THEN 63
    ELSE 0 - 1

\* buf.toString('base64')
Base64Encode(b) ==
    LET n == Len(b)
        at(k) == IF k <= n THEN b[k] ELSE 0
        out(i) ==
            LET g == (i - 1) \div 4
                p == (i - 1) % 4
                b1 == at(3 * g + 1)
                b2 == at(3 * g + 2)
                b3 == at(3 * g + 3)
            IN  IF p = 0 THEN B64Char(b1 \div 4)
                ELSE IF p = 1 THEN B64Char((b1 % 4) * 16 + (b2 \div 16))
                ELSE IF p = 2 THEN IF 3 * g + 2 > n THEN 61
                                   ELSE B64Char((b2 % 16) * 4 + (b3 \div 64))
                ELSE IF 3 * g + 3 > n THEN 61 ELSE B64Char(b3 % 64)
    IN  [i \in 1..(4 * ((n + 2) \div 3)) |-> out(i)]

\* the sextets of a base64 text: it ends at the first '=', other characters are skipped
B64Sextets(t) ==
    LET pads == {i \in 1..Len(t) : t[i] = 61}
        end == IF pads = {} THEN Len(t) + 1
               ELSE CHOOSE i \in pads : \A j \in pads : i <= j
        kept == SelectSeq(SubSeq(t, 1, end - 1), LAMBDA c : B64Val(c) >= 0)
    IN  [i \in 1..Len(kept) |-> B64Val(kept[i])]

\* Buffer.from(text, 'base64')
Base64Decode(t) ==
    LET s == B64Sextets(t)
        m == Len(s)
        n == 3 * (m \div 4) + (IF m % 4 = 0 THEN 0 ELSE (m % 4) - 1)
        byte(k) ==
            LET g == (k - 1) \div 3
                p == (k - 1) % 3
                s1 == s[4 * g + 1]
                s2 == s[4 * g + 2]
            IN  IF p = 0 THEN s1 * 4 + (s2 \div 16)
                ELSE IF p = 1 THEN (s2 % 16) * 16 + (s[4 * g + 3] \div 4)
                ELSE (s[4 * g + 3] % 4) * 64 + s[4 * g + 4]
    IN  [k \in 1..n |-> byte(k)]

\* ------------------------------------------------------------------ JSON

\* A JSON value as the handlers see it.
JUndef == [t |-> "undefined"]
JNull == [t |-> "null"]
JBool(b) == [t |-> "boolean", b |-> b]
JNum(n) == [t |-> "number", n |-> n]
JStr(s) == [t |-> "string", s |-> s]
JObj(members) == [t |-> "object", members |-> members]

RECURSIVE Digits(_)
Digits(n) == IF n < 10 THEN <<48 + n>> ELSE Digits(n \div 10) \o <<48 + (n % 10)>>

\* JSON.stringify of an integer
JsonNumber(n) == IF n < 0 THEN <<45>> \o Digits(0 - n) ELSE Digits(n)

HexDigit(v) == IF v < 10 THEN 48 + v ELSE 97 + (v - 10)

\* JSON.stringify's escaping of one character of a string
JsonEscapeChar(c) ==
    IF c = 34 THEN <<92, 34>>
    ELSE IF c = 92 THEN <<92, 92>>
    ELSE IF c = 8 THEN <<92, 98>>
    ELSE IF c = 12 THEN <<92, 102>>
    ELSE IF c = 10 THEN <<92, 110>>
    ELSE IF c = 13 THEN <<92, 114>>
    ELSE IF c = 9 THEN <<92, 116>>
    ELSE IF c < 32 THEN <<92, 117, 48, 48, HexDigit(c \div 16), HexDigit(c % 16)>>
    ELSE <<c>>

\* JSON.stringify of a string
JsonQuote(s) ==
    <<34>> \o ConcatAll([i \in 1..Len(s) |-> JsonEscapeChar(s[i])]) \o <<34>>

\* JSON.stringify of a scalar member value
JsonScalar(v) ==
    IF v.t = "string" THEN JsonQuote(v.s)
    ELSE IF v.t = "number" THEN JsonNumber(v.n)
    ELSE IF v.t = "boolean" THEN (IF v.b THEN <<116, 114, 117, 101>>
                                  ELSE <<102, 97, 108, 115, 101>>)
    ELSE <<110, 117, 108, 108>>

\* JSON.stringify of an object given as a sequence of <<key, value>>: a member whose
\* value is undefined is left out
RECURSIVE JsonMembers(_, _, _)
JsonMembers(members, i, first) ==
    IF i > Len(members) THEN <<>>
    ELSE IF members[i][2].t = "undefined" THEN JsonMembers(members, i + 1, first)
    ELSE (IF first THEN <<>> ELSE <<44>>)
         \o JsonQuote(members[i][1]) \o <<58>> \o JsonScalar(members[i][2])
         \o JsonMembers(members, i + 1, FALSE)

JsonStringify(v) ==
    IF v.t = "object" THEN <<123>> \o JsonMembers(v.members, 1, TRUE) \o <<125>>
    ELSE JsonScalar(v)

\* -- JSON.parse, for the grammar of a scalar or of an object with scalar members
JFail == [ok |-> FALSE, pos |-> 0, val |-> JUndef]
JOk(pos, val) == [ok |-> TRUE, pos |-> pos, val |-> val]

JsonWs == {32, 9, 10, 13}

RECURSIVE SkipWs(_, _)
SkipWs(t, i) == IF i <= Len(t) /\ t[i] \in JsonWs THEN SkipWs(t, i + 1) ELSE i

HexVal(c) ==
    IF c \in 48..57 THEN c - 48
    ELSE IF c \in 97..102 THEN c - 87
    ELSE IF c \in 65..70 THEN c - 55
    ELSE 0 - 1

\* the characters of a string literal from position i (after the opening quote)
RECURSIVE ScanString(_, _, _)
ScanString(t, i, acc) ==
    IF i > Len(t) THEN JFail
    ELSE IF t[i] = 34 THEN JOk(i + 1, JStr(acc))
    ELSE IF t[i] < 32 THEN JFail
    ELSE IF t[i] # 92 THEN ScanString(t, i + 1, Append(acc, t[i]))
    ELSE IF i + 1 > Len(t) THEN JFail
    ELSE LET e == t[i + 1] IN
         IF e \in {34, 92, 47} THEN ScanString(t, i + 2, Append(acc, e))
         ELSE IF e = 98 THEN ScanString(t, i + 2, Append(acc, 8))
         ELSE IF e = 102 THEN ScanString(t, i + 2, Append(acc, 12))
         ELSE IF e = 110 THEN ScanString(t, i + 2, Append(acc, 10))
         ELSE IF e = 114 THEN ScanString(t, i + 2, Append(acc, 13))
         ELSE IF e = 116 THEN ScanString(t, i + 2, Append(acc, 9))
         ELSE IF e = 117 /\ i + 5 <= Len(t)
                 /\ \A k \in 2..5 : HexVal(t[i + k]) >= 0
              THEN ScanString(t, i + 6,
                     Append(acc, HexVal(t[i + 2]) * 4096 + HexVal(t[i + 3]) * 256
                                 + HexVal(t[i + 4]) * 16 + HexVal(t[i + 5])))
         ELSE JFail

RECURSIVE ScanDigits(_, _, _)
ScanDigits(t, i, acc) ==
    IF i <= Len(t) /\ t[i] \in 48..57
    THEN ScanDigits(t, i + 1, acc * 10 + (t[i] - 48))
    ELSE JOk(i, JNum(acc))

\* an integer literal: -? (0 | [1-9][0-9]*), not followed by a fraction or exponent
ParseNumber(t, i) ==
    LET neg == t[i] = 45
        j == IF neg THEN i + 1 ELSE i
    IN  IF j > Len(t) \/ t[j] \notin 48..57 THEN JFail
        ELSE LET r == IF t[j] = 48 THEN JOk(j + 1, JNum(0)) ELSE ScanDigits(t, j, 0)
             IN  IF r.pos <= Len(t) /\ t[r.pos] \in (48..57) \cup {46, 101, 69}
                 THEN JFail
                 ELSE JOk(r.pos, JNum(IF neg THEN 0 - r.val.n ELSE r.val.n))

HasWord(t, i, w) == i + Len(w) - 1 <= Len(t) /\ SubSeq(t, i, i + Len(w) - 1) = w

ParseScalar(t, i) ==
    IF i > Len(t) THEN JFail
    ELSE IF t[i] = 34 THEN ScanString(t, i + 1, <<>>)
    ELSE IF t[i] = 45 \/ t[i] \in 48..57 THEN ParseNumber(t, i)
    ELSE IF HasWord(t, i, <<110, 117, 108, 108>>) THEN JOk(i + 4, JNull)
    ELSE IF HasWord(t, i, <<116, 114, 117, 101>>) THEN JOk(i + 4, JBool(TRUE))
    ELSE IF HasWord(t, i, <<102, 97, 108, 115, 101>>) THEN JOk(i + 5, JBool(FALSE))
    ELSE JFail

\* the members of an object from position i (at a key's opening quote)
RECURSIVE ParseMembers(_, _, _)
ParseMembers(t, i, acc) ==
    IF i > Len(t) \/ t[i] # 34 THEN JFail
    ELSE LET k == ScanString(t, i + 1, <<>>) IN
         IF ~k.ok THEN JFail
         ELSE LET c == SkipWs(t, k.pos) IN
              IF c > Len(t) \/ t[c] # 58 THEN JFail
              ELSE LET v == ParseScalar(t, SkipWs(t, c + 1)) IN
                   IF ~v.ok THEN JFail
                   ELSE LET e == SkipWs(t, v.pos)
                            got == Append(acc, <<k.val.s, v.val>>)
                        IN  IF e > Len(t) THEN JFail
                            ELSE IF t[e] = 125 THEN JOk(e + 1, JObj(got))
                            ELSE IF t[e] = 44 THEN ParseMembers(t, SkipWs(t, e + 1), got)
                            ELSE JFail

ParseValue(t, i) ==
    IF i > Len(t) THEN JFail
    ELSE IF t[i] = 123
         THEN LET j == SkipWs(t, i + 1) IN
              IF j <= Len(t) /\ t[j] = 125 THEN JOk(j + 1, JObj(<<>>))
              ELSE ParseMembers(t, j, <<>>)
    ELSE ParseScalar(t, i)

\* JSON.parse(text): ok = FALSE stands for the SyntaxError it throws
JsonParse(t) ==
    LET r == ParseValue(t, SkipWs(t, 1)) IN
    IF r.ok /\ SkipWs(t, r.pos) = Len(t) + 1 THEN r ELSE JFail

\* obj[key] of a parsed value: the last member of that name, undefined if there is none
\* or if the value is a string, number or boolean
RECURSIVE MemberFrom(_, _, _)
MemberFrom(members, key, i) ==
    IF i = 0 THEN JUndef
    ELSE IF members[i][1] = key THEN members[i][2]
    ELSE MemberFrom(members, key, i - 1)

Member(v, key) ==
    IF v.t = "object" THEN MemberFrom(v.members, key, Len(v.members)) ELSE JUndef

\* ------------------------------------------------------------------ dates

\* n in decimal, with zeros in front up to the width w
Pad(n, w) ==
    LET d == Digits(n) IN [i \in 1..(w - Len(d)) |-> 48] \o d

\* the year, month and day of the day that is `days` days after 1970-01-01
CivilFromDays(days) ==
    LET z == days + 719468
        era == z \div 146097
        doe == z - era * 146097
        yoe == (doe - doe \div 1460 + doe \div 36524 - doe \div 146096) \div 365
        doy == doe - (365 * yoe + yoe \div 4 - yoe \div 100)
        mp == (5 * doy + 2) \div 153
        m == IF mp < 10 THEN mp + 3 ELSE mp - 9
    IN  [year |-> yoe + era * 400 + (IF m <= 2 THEN 1 ELSE 0),
         month |-> m,
         day |-> doy - (153 * mp + 2) \div 5 + 1]

\* toISOString without its milliseconds
ToISOStringOfSeconds(ms) ==
    LET date == CivilFromDays(ms \div 86400000)
        inDay == ms % 86400000
    IN  Pad(date.year, 4) \o <<45>> \o Pad(date.month, 2) \o <<45>> \o Pad(date.day, 2)
        \o <<84>> \o Pad(inDay \div 3600000, 2) \o <<58>>
        \o Pad((inDay % 3600000) \div 60000, 2) \o <<58>>
        \o Pad((inDay % 60000) \div 1000, 2) \o <<90>>

\* new Date(ms).toISOString(): YYYY-MM-DDTHH:mm:ss.sssZ
ToISOString(ms) ==
    LET date == CivilFromDays(ms \div 86400000)
        inDay == ms % 86400000
    IN  Pad(date.year, 4) \o <<45>> \o Pad(date.month, 2) \o <<45>> \o Pad(date.day, 2)
        \o <<84>> \o Pad(inDay \div 3600000, 2) \o <<58>>
        \o Pad((inDay % 3600000) \div 60000, 2) \o <<58>>
        \o Pad((inDay % 60000) \div 1000, 2) \o <<46>> \o Pad(inDay % 1000, 3)
        \o <<90>>

\* ----------------------------------------------------------- environment

\* A process.env entry, or a field of a document: unset/undefined, or a string.
Unset == [set |-> FALSE, val |-> ""]
Val(s) == [set |-> TRUE, val |-> s]

\* !v
Falsy(v) == ~v.set \/ v.val = ""

\* `${v}`
TemplateStr(v) == IF v.set THEN v.val ELSE "undefined"

\* the property names of the state record
KeyReturnUrl == <<114, 101, 116, 117, 114, 110, 85, 114, 108>>
KeySalt == <<115, 97, 108, 116>>
KeyUserId == <<117, 115, 101, 114, 73, 100>>
KeyTimestamp == <<116, 105, 109, 101, 115, 116, 97, 109, 112>>

\* the base64 text of the gateway's validation key ("a2V5", the bytes of "key")
ValidationKeyText == <<97, 50, 86, 53>>

\* the bytes of a key the gateway does not hold
OtherKeyBytes == <<120>>

\* "https://p.example"
PortalUrlText ==
    <<104, 116, 116, 112, 115, 58, 47, 47, 112, 46, 101, 120, 97, 109, 112, 108, 101>>

Issuer == "https://idp.example"
Issuers == {Issuer}

BaseEnv ==
    [APIM_VALIDATION_KEY |-> Str(ValidationKeyText),
     OIDC_ISSUER |-> Val(Issuer),
     OIDC_CLIENT_ID |-> Val("client-id"),
     OIDC_CLIENT_SECRET |-> Val("client-secret"),
     OIDC_REDIRECT_URI |-> Val("https://fn.example/api/auth-callback"),
     OIDC_AUTHORIZATION_ENDPOINT |-> Unset,
     OIDC_TOKEN_ENDPOINT |-> Unset,
     OIDC_USERINFO_ENDPOINT |-> Unset,
     OIDC_END_SESSION_ENDPOINT |-> Unset,
     APIM_PORTAL_URL |-> Str(PortalUrlText),
     APIM_SUBSCRIPTION_ID |-> Val("sub"),
     APIM_RESOURCE_GROUP |-> Val("rg"),
     APIM_SERVICE_NAME |-> Val("apim"),
     APIM_ACCESS_TOKEN |-> Val("manual-token"),
     IDENTITY_ENDPOINT |-> Unset,
     IDENTITY_HEADER |-> Unset]

\* the configurations the process is started with
Environments ==
    {BaseEnv,
     [BaseEnv EXCEPT !.APIM_VALIDATION_KEY = Absent],
     [BaseEnv EXCEPT !.APIM_VALIDATION_KEY = Str(<<>>)],
     [BaseEnv EXCEPT !.OIDC_ISSUER = Unset],
     [BaseEnv EXCEPT !.OIDC_CLIENT_ID = Unset],
     [BaseEnv EXCEPT !.OIDC_CLIENT_SECRET = Val("")],
     [BaseEnv EXCEPT !.OIDC_REDIRECT_URI = Unset],
     [BaseEnv EXCEPT !.OIDC_AUTHORIZATION_ENDPOINT = Val("/v1/authorize"),
                     !.OIDC_END_SESSION_ENDPOINT = Val("/v1/logout"),
                     !.APIM_PORTAL_URL = Absent,
                     !.IDENTITY_ENDPOINT = Val("https://identity.example/token"),
                     !.IDENTITY_HEADER = Val("header")],
     [BaseEnv EXCEPT !.APIM_SERVICE_NAME = Unset],
     [BaseEnv EXCEPT !.APIM_ACCESS_TOKEN = Unset,
                     !.IDENTITY_ENDPOINT = Val("https://identity.example/token"),
                     !.IDENTITY_HEADER = Val("header")],
     [BaseEnv EXCEPT !.APIM_ACCESS_TOKEN = Unset]}

\* ------------------------------------------------------------- signature

\* The sig parameter: absent, a text, or the base64 text of an HMAC-SHA512 digest.  A
\* digest is the pair of the key bytes and the message bytes it was computed from (two
\* digests are equal exactly when both are); its base64 text has 88 characters and is
\* no text the model writes out.
SigAbsent == [present |-> FALSE, mac |-> FALSE, key |-> <<>>, msg |-> <<>>, text |-> <<>>]
SigText(t) == [present |-> TRUE, mac |-> FALSE, key |-> <<>>, msg |-> <<>>, text |-> t]

\* crypto.createHmac('sha512', keyBytes).update(msg, 'utf8').digest('base64')
HmacSha512Base64(keyBytes, msg) ==
    [present |-> TRUE, mac |-> TRUE, key |-> keyBytes, msg |-> Utf8Encode(msg),
     text |-> <<>>]

\* !signature
SigFalsy(sig) == ~sig.present \/ (~sig.mac /\ sig.text = <<>>)

SignInOps == {"SignIn", "SignUp"}

\* the userId cases without CloseAccount
UserOpsWithoutCloseAccount == {"ChangePassword", "ChangeProfile", "SignOut"}

UserOps == {"ChangePassword", "ChangeProfile", "CloseAccount", "SignOut"}

\* StringToSign joining the salt and the field with nothing between them
StringToSignNoSeparator(operation, salt, returnUrl, userId) ==
    IF operation.set /\ operation.val \in SignInOps
    THEN [ok |-> TRUE, text |-> ToStr(salt) \o ToStr(returnUrl)]
    ELSE IF operation.set /\ operation.val \in UserOps
    THEN [ok |-> TRUE, text |-> ToStr(salt) \o ToStr(userId)]
    ELSE [ok |-> FALSE, text |-> <<>>]

\* StringToSign with the userId cases signing the returnUrl
StringToSignOfReturnUrl(operation, salt, returnUrl, userId) ==
    IF operation.set /\ operation.val \in SignInOps \cup UserOps
    THEN [ok |-> TRUE, text |-> ToStr(salt) \o <<10>> \o ToStr(returnUrl)]
    ELSE [ok |-> FALSE, text |-> <<>>]

\* StringToSign with a default branch that signs like SignIn
StringToSignWithDefault(operation, salt, returnUrl, userId) ==
    IF operation.set /\ operation.val \in UserOps
    THEN [ok |-> TRUE, text |-> ToStr(salt) \o <<10>> \o ToStr(userId)]
    ELSE [ok |-> TRUE, text |-> ToStr(salt) \o <<10>> \o ToStr(returnUrl)]

\* the switch of validateApimSignature: the string to sign, ok = FALSE for the default branch
StringToSign(operation, salt, returnUrl, userId) ==
    IF operation.set /\ operation.val \in SignInOps
    THEN [ok |-> TRUE, text |-> ToStr(salt) \o <<10>> \o ToStr(returnUrl)]
    ELSE IF operation.set /\ operation.val \in UserOps
    THEN [ok |-> TRUE, text |-> ToStr(salt) \o <<10>> \o ToStr(userId)]
    ELSE [ok |-> FALSE, text |-> <<>>]

validateApimSignature(e, operation, salt, returnUrl, userId, signature) ==
    IF ~Truthy(e.APIM_VALIDATION_KEY) \/ SigFalsy(signature) THEN FALSE
    ELSE LET s == StringToSign(operation, salt, returnUrl, userId) IN
         IF ~s.ok THEN FALSE
         ELSE HmacSha512Base64(Base64Decode(e.APIM_VALIDATION_KEY.text), s.text)
              = signature

\* ----------------------------------------------------------- OIDC helper

CACHE_TTL == 3600000

NoEndpoints ==
    [authorization_endpoint |-> Unset, token_endpoint |-> Unset,
     userinfo_endpoint |-> Unset, end_session_endpoint |-> Unset, issuer |-> Unset]

NoEntry == [has |-> FALSE, endpoints |-> NoEndpoints, timestamp |-> 0]

\* getOidcConfig taking an empty setting for a value
getOidcConfigUnlessUnset(e) ==
    IF ~e.OIDC_ISSUER.set \/ ~e.OIDC_CLIENT_ID.set \/ ~e.OIDC_CLIENT_SECRET.set
       \/ ~e.OIDC_REDIRECT_URI.set
    THEN [ok |-> FALSE, issuer |-> "", clientId |-> "", clientSecret |-> "",
          redirectUri |-> ""]
    ELSE [ok |-> TRUE, issuer |-> e.OIDC_ISSUER.val, clientId |-> e.OIDC_CLIENT_ID.val,
          clientSecret |-> e.OIDC_CLIENT_SECRET.val,
          redirectUri |-> e.OIDC_REDIRECT_URI.val]

\* getOidcConfig without the test of the redirect URI
getOidcConfigNoRedirectTest(e) ==
    IF Falsy(e.OIDC_ISSUER) \/ Falsy(e.OIDC_CLIENT_ID) \/ Falsy(e.OIDC_CLIENT_SECRET)
    THEN [ok |-> FALSE, issuer |-> "", clientId |-> "", clientSecret |-> "",
          redirectUri |-> ""]
    ELSE [ok |-> TRUE, issuer |-> e.OIDC_ISSUER.val, clientId |-> e.OIDC_CLIENT_ID.val,
          clientSecret |-> e.OIDC_CLIENT_SECRET.val,
          redirectUri |-> e.OIDC_REDIRECT_URI.val]

\* getOidcConfig without the test of the client secret
getOidcConfigNoSecretTest(e) ==
    IF Falsy(e.OIDC_ISSUER) \/ Falsy(e.OIDC_CLIENT_ID) \/ Falsy(e.OIDC_REDIRECT_URI)
    THEN [ok |-> FALSE, issuer |-> "", clientId |-> "", clientSecret |-> "",
          redirectUri |-> ""]
    ELSE [ok |-> TRUE, issuer |-> e.OIDC_ISSUER.val, clientId |-> e.OIDC_CLIENT_ID.val,
          clientSecret |-> e.OIDC_CLIENT_SECRET.val,
          redirectUri |-> e.OIDC_REDIRECT_URI.val]

\* getOidcConfig: ok = FALSE stands for the Error it throws
getOidcConfig(e) ==
    IF Falsy(e.OIDC_ISSUER) \/ Falsy(e.OIDC_CLIENT_ID) \/ Falsy(e.OIDC_CLIENT_SECRET)
       \/ Falsy(e.OIDC_REDIRECT_URI)
    THEN [ok |-> FALSE, issuer |-> "", clientId |-> "", clientSecret |-> "",
          redirectUri |-> ""]
    ELSE [ok |-> TRUE, issuer |-> e.OIDC_ISSUER.val, clientId |-> e.OIDC_CLIENT_ID.val,
          clientSecret |-> e.OIDC_CLIENT_SECRET.val,
          redirectUri |-> e.OIDC_REDIRECT_URI.val]

\* the cache test with <= for <
CacheHitAtTtl(cache, issuer, t) ==
    cache[issuer].has /\ (t - cache[issuer].timestamp) <= CACHE_TTL

\* validateOidcConfig: getOidcConfig in a try, true unless it throws
validateOidcConfig(e) == getOidcConfig(e).ok

\* discoverOidcEndpoints, the cache test
CacheHit(cache, issuer, t) ==
    cache[issuer].has /\ (t - cache[issuer].timestamp) < CACHE_TTL

\* discoverOidcEndpoints, the endpoints picked from a discovery document
DiscoveredEndpoints(doc) ==
    [authorization_endpoint |-> doc.authorization_endpoint,
     token_endpoint |-> doc.token_endpoint,
     userinfo_endpoint |-> doc.userinfo_endpoint,
     end_session_endpoint |-> doc.end_session_endpoint,
     issuer |-> doc.issuer]

\* the catch branch with a logout endpoint whether or not a logout path is configured
FallbackEndpointsWithLogout(e, issuer) ==
    [authorization_endpoint |->
         Val(issuer \o (IF Falsy(e.OIDC_AUTHORIZATION_ENDPOINT) THEN "/oauth2/authorize"
                        ELSE e.OIDC_AUTHORIZATION_ENDPOINT.val)),
     token_endpoint |->
         Val(issuer \o (IF Falsy(e.OIDC_TOKEN_ENDPOINT) THEN "/oauth2/token"
                        ELSE e.OIDC_TOKEN_ENDPOINT.val)),
     userinfo_endpoint |->
         Val(issuer \o (IF Falsy(e.OIDC_USERINFO_ENDPOINT) THEN "/oauth2/userinfo"
                        ELSE e.OIDC_USERINFO_ENDPOINT.val)),
     end_session_endpoint |-> Val(issuer \o TemplateStr(e.OIDC_END_SESSION_ENDPOINT)),
     issuer |-> Val(issuer)]

\* discoverOidcEndpoints, the catch branch
FallbackEndpoints(e, issuer) ==
    LET authPath == IF Falsy(e.OIDC_AUTHORIZATION_ENDPOINT) THEN "/oauth2/authorize"
                    ELSE e.OIDC_AUTHORIZATION_ENDPOINT.val
        tokenPath == IF Falsy(e.OIDC_TOKEN_ENDPOINT) THEN "/oauth2/token"
                     ELSE e.OIDC_TOKEN_ENDPOINT.val
        userinfoPath == IF Falsy(e.OIDC_USERINFO_ENDPOINT) THEN "/oauth2/userinfo"
                        ELSE e.OIDC_USERINFO_ENDPOINT.val
        logoutPath == e.OIDC_END_SESSION_ENDPOINT
    IN  [authorization_endpoint |-> Val(issuer \o authPath),
         token_endpoint |-> Val(issuer \o tokenPath),
         userinfo_endpoint |-> Val(issuer \o userinfoPath),
         end_session_endpoint |-> IF Falsy(logoutPath) THEN Unset
                                  ELSE Val(issuer \o logoutPath.val),
         issuer |-> Val(issuer)]

DefaultScopes == "openid profile email"

\* buildAuthorizationUrl asking for the implicit flow
buildAuthorizationUrlImplicit(oidcConfig, state, scopes) ==
    [url |-> TemplateStr(oidcConfig.endpoints.authorization_endpoint),
     query |-> << <<"client_id", oidcConfig.clientId>>,
                  <<"response_type", "token">>,
                  <<"scope", scopes>>,
                  <<"redirect_uri", oidcConfig.redirectUri>>,
                  <<"state", state>> >>]

\* buildAuthorizationUrl: the endpoint and the URLSearchParams that follow its '?'
buildAuthorizationUrl(oidcConfig, state, scopes) ==
    [url |-> TemplateStr(oidcConfig.endpoints.authorization_endpoint),
     query |-> << <<"client_id", oidcConfig.clientId>>,
                  <<"response_type", "code">>,
                  <<"scope", scopes>>,
                  <<"redirect_uri", oidcConfig.redirectUri>>,
                  <<"state", state>> >>]

\* ------------------------------------------------------------ state blob

\* the stateData literal of the delegation handler
StateData(returnUrl, salt, userId, timestamp) ==
    LET opt(v) == IF v.present THEN JStr(v.text) ELSE JUndef
    IN  JObj(<< <<KeyReturnUrl, opt(returnUrl)>>, <<KeySalt, opt(salt)>>,
                <<KeyUserId, opt(userId)>>, <<KeyTimestamp, JNum(timestamp)>> >>)

\* Buffer.from(JSON.stringify(stateData)).toString('base64')
EncodeState(stateData) == Base64Encode(Utf8Encode(JsonStringify(stateData)))

\* the decoding with the bytes read as latin1 instead of UTF-8
DecodeStateLatin1(encodedState) == JsonParse(Base64Decode(encodedState))

\* JSON.parse(Buffer.from(encodedState, 'base64').toString())
DecodeState(encodedState) == JsonParse(Utf8Decode(Base64Decode(encodedState)))


\* ----------------------------------------------------------------- state

VARIABLES
    env,             \* process.env, fixed when the process starts
    now,             \* Date.now()
    discoveryCache,  \* the module-level Map of the OIDC helper, by issuer
    pc,              \* where the invocation is: "idle" (none runs), an await, "done"
    req,             \* the request of the current (or last) invocation
    res,             \* context.res of the current (or last) invocation
    oidcConfig,      \* the handler's oidcConfig
    stateData,       \* the handler's stateData
    discovery,       \* what this invocation's discoverOidcEndpoints call met
    calls,           \* helper calls and outbound requests of this invocation, in order
    locals,          \* the callback handler's tokenResponse, userData, apimUserId, ...
    issued,          \* the states the delegation handler has put into a redirect
    probe            \* a direct call of one of the pure functions: arguments and result

vars == <<env, now, discoveryCache, pc, req, res, oidcConfig, stateData, discovery,
          calls, locals, issued, probe>>

\* -- responses
NoBody == [none |-> TRUE]
NoLocation == [set |-> FALSE, url |-> "", query |-> <<>>]
NoRes == [status |-> 0, body |-> NoBody, location |-> NoLocation]

ErrorResponse(status, error) ==
    [status |-> status, body |-> [error |-> error], location |-> NoLocation]

Redirect(location) ==
    [status |-> 302, body |-> NoBody,
     location |-> [set |-> TRUE, url |-> location.url, query |-> location.query]]

\* -- requests
NoRequest ==
    [handler |-> "none", operation |-> Unset, salt |-> Absent, returnUrl |-> Absent,
     userId |-> Absent, sig |-> SigAbsent, code |-> Absent, state |-> Absent]

NoConfig == [ok |-> FALSE, issuer |-> "", clientId |-> "", clientSecret |-> "",
             redirectUri |-> "", endpoints |-> NoEndpoints]

\* -- the discovery requests' outcomes
DocFull ==
    [authorization_endpoint |-> Val(Issuer \o "/authorize"),
     token_endpoint |-> Val(Issuer \o "/token"),
     userinfo_endpoint |-> Val(Issuer \o "/userinfo"),
     end_session_endpoint |-> Val(Issuer \o "/logout"),
     issuer |-> Val(Issuer)]

\* the document {}
DocEmpty == NoEndpoints

NoDoc == NoEndpoints

\* httpsGet resolves with the JSON document of a 2xx response, or rejects: for another
\* status, for a body that does not parse, for a network error
DiscoveryOutcomes ==
    {[kind |-> "ok", doc |-> d] : d \in {DocFull, DocEmpty}}
    \cup {[kind |-> "rejected", doc |-> NoDoc]}

NoDiscovery == [kind |-> "none", doc |-> NoDoc]
CachedDiscovery == [kind |-> "cache", doc |-> NoDoc]

\* -- time
StartTime == 1000000

\* the age past which the callback handler rejects a state
StateMaxAge == 600000

\* the instants at which the clock is read
Times == {StartTime + d : d \in {0, StateMaxAge, StateMaxAge + 1}}

\* how many states the delegation handler issues in a run
MaxIssued == 1

\* -- the requests of the model
Operations == {"SignIn", "SignUp", "ChangePassword", "ChangeProfile", "CloseAccount",
               "SignOut", "Other"}

FlowSalts == {Str(<<115>>)}
FlowReturnUrls == {Str(<<47, 97>>)}
FlowUserIds == {Absent, Str(<<117>>)}

\* what a holder of key k signs for a salt and a field, as the gateway does
SignedBy(k, salt, field) ==
    [present |-> TRUE, mac |-> TRUE, key |-> k,
     msg |-> Utf8Encode(ToStr(salt) \o <<10>> \o ToStr(field)), text |-> <<>>]

GatewayKeyBytes == <<107, 101, 121>>

FlowSignatures(salt, returnUrl, userId) ==
    {SigAbsent, SigText(<<120>>),
     SignedBy(GatewayKeyBytes, salt, returnUrl),
     SignedBy(GatewayKeyBytes, salt, userId)}

DelegationRequestsFor(s, r, u) ==
    {[NoRequest EXCEPT !.handler = "delegation", !.operation = op, !.salt = s,
                       !.returnUrl = r, !.userId = u, !.sig = g] :
        op \in {Unset} \cup {Val(o) : o \in Operations},
        g \in FlowSignatures(s, r, u)}

DelegationRequests ==
    UNION {DelegationRequestsFor(s, r, u) :
             s \in FlowSalts, r \in FlowReturnUrls, u \in FlowUserIds}

\* "http"
HttpText == <<104, 116, 116, 112>>

\* "https://p.example/a"
AbsoluteReturnUrlText ==
    <<104, 116, 116, 112, 115, 58, 47, 47, 112, 46, 101, 120, 97, 109, 112, 108, 101, 47,
      97>>

\* the return URLs of such states: a URL, and "http", which is none
ForgedReturnUrls == {AbsoluteReturnUrlText, HttpText}

\* states nobody issued: made by the sender of the callback request for a return URL and
\* a salt of its choosing, with a timestamp of the given age
ForgedStateData(t, age, returnUrl) ==
    StateData(Str(returnUrl), Str(<<115>>), Absent, t - age)

ForgedAges == {0, StateMaxAge + 1}

\* state parameters that are no state record: base64 of "a", of "null", of "{}"
MalformedStates ==
    {<<89, 81>>, EncodeState(JNull), EncodeState(JObj(<<>>))}

CallbackStates(t) ==
    {Absent, Str(<<>>)}
    \cup {Str(i.wire) : i \in issued}
    \cup {Str(EncodeState(ForgedStateData(t, age, AbsoluteReturnUrlText))) :
             age \in ForgedAges}
    \cup {Str(EncodeState(ForgedStateData(t, 0, HttpText)))}
    \cup {Str(w) : w \in MalformedStates}

CallbackCodes == {Absent, Str(<<99>>)}

CallbackRequests(t) ==
    {[NoRequest EXCEPT !.handler = "auth-callback", !.code = c, !.state = st] :
        c \in CallbackCodes, st \in CallbackStates(t)}

NoProbe == [fn |-> "none"]

NoUserData ==
    [userId |-> Absent, email |-> Absent, firstName |-> <<>>, lastName |-> <<>>,
     registrationDate |-> <<>>, note |-> ""]

\* what the handler reads of tokenResponse, before there is one
NoTokenResponse == [error |-> Unset, error_description |-> Unset, access_token |-> Unset]

NoLocals ==
    [tokenResponse |-> NoTokenResponse, userData |-> NoUserData, apimUserId |-> Absent,
     azureToken |-> Unset, ssoResponse |-> Absent, apimError |-> Unset]

Init ==
    /\ env \in Environments
    /\ now = StartTime
    /\ discoveryCache = [i \in Issuers |-> NoEntry]
    /\ pc = "idle"
    /\ req = NoRequest
    /\ res = NoRes
    /\ oidcConfig = NoConfig
    /\ stateData = JUndef
    /\ discovery = NoDiscovery
    /\ calls = <<>>
    /\ locals = NoLocals
    /\ issued = {}
    /\ probe = NoProbe

\* an await after which the invocation reads the clock: the discovery request (the cache
\* timestamp, the state timestamp) and the user info request (the registration date)
ClockReadAfter == {"delegation:discovery", "callback:discovery", "callback:userinfo"}

\* time passes, between invocations and while an invocation awaits
Tick ==
    /\ pc \in {"idle"} \cup ClockReadAfter
    /\ \E t \in Times :
        /\ t > now
        /\ now' = t
    /\ UNCHANGED <<env, discoveryCache, pc, req, res, oidcConfig, stateData, discovery,
                   calls, locals, issued, probe>>

\* ---------------------------------------------------- delegation handler

\* the handler returns with context.res = r
DelegationEnds(r) ==
    /\ res' = r
    /\ pc' = "done"

\* the invocation is over: the runtime sends context.res and drops the context
InvocationReturns ==
    /\ pc = "done"
    /\ pc' = "idle"
    /\ req' = NoRequest
    /\ res' = NoRes
    /\ oidcConfig' = NoConfig
    /\ stateData' = JUndef
    /\ discovery' = NoDiscovery
    /\ calls' = <<>>
    /\ locals' = NoLocals
    /\ UNCHANGED <<env, now, discoveryCache, issued, probe>>

\* SignIn once the OIDC configuration is there: the state, the URL, the redirect
SignInRedirect(q, cfg) ==
    LET data == StateData(q.returnUrl, q.salt, q.userId, now)
        encodedState == EncodeState(data)
        authUrl == buildAuthorizationUrl(cfg, encodedState, DefaultScopes)
    IN  /\ stateData' = data
        /\ oidcConfig' = cfg
        /\ issued' = issued \cup {[wire |-> encodedState, data |-> data]}
        /\ DelegationEnds(Redirect(authUrl))

DelegationHandler ==
    /\ pc = "idle"
    /\ \E q \in DelegationRequests :
        /\ req' = q
        /\ IF ~validateApimSignature(env, q.operation, q.salt, q.returnUrl, q.userId,
                                     q.sig)
           THEN /\ DelegationEnds(ErrorResponse(401, "Invalid signature"))
                /\ calls' = <<>>
                /\ discovery' = NoDiscovery
                /\ oidcConfig' = NoConfig
                /\ stateData' = JUndef
                /\ UNCHANGED issued
           ELSE IF q.operation = Val("SignIn")
           THEN Cardinality(issued) < MaxIssued /\
                LET config == getOidcConfig(env) IN
                IF ~config.ok
                THEN \* getOidcConfiguration throws
                     /\ DelegationEnds(ErrorResponse(500, "Server configuration error"))
                     /\ calls' = <<"getOidcConfiguration">>
                     /\ discovery' = NoDiscovery
                     /\ oidcConfig' = NoConfig
                     /\ stateData' = JUndef
                     /\ UNCHANGED issued
                ELSE IF CacheHit(discoveryCache, config.issuer, now)
                THEN /\ calls' = <<"getOidcConfiguration">>
                     /\ discovery' = CachedDiscovery
                     /\ SignInRedirect(q,
                          [ok |-> TRUE, issuer |-> config.issuer,
                           clientId |-> config.clientId,
                           clientSecret |-> config.clientSecret,
                           redirectUri |-> config.redirectUri,
                           endpoints |-> discoveryCache[config.issuer].endpoints])
                ELSE \* await httpsGet(discoveryUrl)
                     /\ calls' = <<"getOidcConfiguration", "GET openid-configuration">>
                     /\ discovery' = NoDiscovery
                     /\ oidcConfig' = [ok |-> TRUE, issuer |-> config.issuer,
                                       clientId |-> config.clientId,
                                       clientSecret |-> config.clientSecret,
                                       redirectUri |-> config.redirectUri,
                                       endpoints |-> NoEndpoints]
                     /\ pc' = "delegation:discovery"
                     /\ res' = NoRes
                     /\ stateData' = JUndef
                     /\ UNCHANGED issued
           ELSE /\ DelegationEnds(ErrorResponse(400, "Unsupported operation"))
                /\ calls' = <<>>
                /\ discovery' = NoDiscovery
                /\ oidcConfig' = NoConfig
                /\ stateData' = JUndef
                /\ UNCHANGED issued
    /\ UNCHANGED <<env, now, discoveryCache, locals, probe>>

\* discoverOidcEndpoints after its await: the endpoints it returns for an outcome
EndpointsFor(outcome, e, issuer) ==
    IF outcome.kind = "ok" THEN DiscoveredEndpoints(outcome.doc)
    ELSE FallbackEndpoints(e, issuer)

\* the cache entry merged field by field with the one it replaces
CacheAfterMerging(cache, outcome, issuer, t) ==
    IF outcome.kind = "ok"
    THEN [cache EXCEPT ![issuer] =
            [has |-> TRUE,
             endpoints |-> IF cache[issuer].has
                           THEN [f \in DOMAIN cache[issuer].endpoints |->
                                   IF DiscoveredEndpoints(outcome.doc)[f].set
                                   THEN DiscoveredEndpoints(outcome.doc)[f]
                                   ELSE cache[issuer].endpoints[f]]
                           ELSE DiscoveredEndpoints(outcome.doc),
             timestamp |-> t]]
    ELSE cache

\* the cache written whatever the outcome
CacheAfterAnyOutcome(cache, outcome, issuer, t) ==
    [cache EXCEPT ![issuer] =
        [has |-> TRUE, endpoints |-> DiscoveredEndpoints(outcome.doc), timestamp |-> t]]

\* discoverOidcEndpoints after its await: the cache it leaves
CacheAfter(cache, outcome, issuer, t) ==
    IF outcome.kind = "ok"
    THEN [cache EXCEPT ![issuer] =
            [has |-> TRUE, endpoints |-> DiscoveredEndpoints(outcome.doc),
             timestamp |-> t]]
    ELSE cache

\* the discovery request of a SignIn completes and the handler runs to its end
DelegationDiscoveryResponse ==
    /\ pc = "delegation:discovery"
    /\ \E outcome \in DiscoveryOutcomes :
        /\ discovery' = outcome
        /\ discoveryCache' = CacheAfter(discoveryCache, outcome, oidcConfig.issuer, now)
        /\ SignInRedirect(req,
             [oidcConfig EXCEPT !.endpoints = EndpointsFor(outcome, env, oidcConfig.issuer)])
    /\ UNCHANGED <<env, now, req, calls, locals, probe>>

\* ------------------------------------------------- auth-callback handler

\* ToNumber of a JSON value, for the subtraction of the freshness check
RECURSIVE AllDigits(_, _)
AllDigits(s, i) == i > Len(s) \/ (s[i] \in 48..57 /\ AllDigits(s, i + 1))

NaN == [nan |-> TRUE, n |-> 0]
Number(n) == [nan |-> FALSE, n |-> n]

ToNumber(v) ==
    IF v.t = "number" THEN Number(v.n)
    ELSE IF v.t = "null" THEN Number(0)
    ELSE IF v.t = "boolean" THEN Number(IF v.b THEN 1 ELSE 0)
    ELSE IF v.t = "string" /\ AllDigits(v.s, 1)
         THEN Number(IF v.s = <<>> THEN 0 ELSE ScanDigits(v.s, 1, 0).val.n)
    ELSE NaN

\* the freshness check with >= for >
StateExpiredAtMaxAge(t, data) ==
    LET ts == ToNumber(Member(data, KeyTimestamp))
    IN  ~ts.nan /\ t - ts.n >= StateMaxAge

\* Date.now() - stateData.timestamp > 600000 (false when the difference is NaN)
StateExpired(t, data) ==
    LET ts == ToNumber(Member(data, KeyTimestamp))
    IN  ~ts.nan /\ t - ts.n > StateMaxAge

\* the handler returning without having set context.res
CallbackEndsWithoutResponse(r) ==
    /\ res' = NoRes
    /\ pc' = "done"

\* the handler returns with context.res = r
CallbackEnds(r) ==
    /\ res' = r
    /\ pc' = "done"

\* the outer catch answering with the message alone
AuthenticationFailedWithoutError(details) ==
    [status |-> 500, body |-> [details |-> details], location |-> NoLocation]

\* the outer catch
AuthenticationFailed(details) ==
    [status |-> 500, body |-> [error |-> "Authentication failed", details |-> details],
     location |-> NoLocation]

\* the handler with its OIDC configuration: it posts the token request.  new URL(tokenUrl)
\* throws for an endpoint that is undefined, and nothing is sent
TokenExchange(cfg, done) ==
    /\ oidcConfig' = cfg
    /\ IF cfg.endpoints.token_endpoint.set
       THEN /\ calls' = done \o <<"POST token">>
            /\ pc' = "callback:token"
            /\ res' = NoRes
       ELSE /\ calls' = done
            /\ CallbackEnds(AuthenticationFailed("Invalid URL"))

\* the handler called with the request q, up to its first await or its return
CallbackHandlerOf(q) ==
        /\ req' = q
        /\ IF ~Truthy(q.code) \/ ~Truthy(q.state)
           THEN /\ CallbackEnds(ErrorResponse(400, "Missing code or state parameter"))
                /\ stateData' = JUndef
                /\ calls' = <<>>
                /\ discovery' = NoDiscovery
                /\ oidcConfig' = NoConfig
           ELSE LET decoded == DecodeState(q.state.text) IN
                IF ~decoded.ok
                THEN /\ CallbackEnds(ErrorResponse(400, "Invalid state parameter"))
                     /\ stateData' = JUndef
                     /\ calls' = <<>>
                     /\ discovery' = NoDiscovery
                     /\ oidcConfig' = NoConfig
                ELSE /\ stateData' = decoded.val
                     /\ IF decoded.val.t = "null"
                        THEN \* stateData.timestamp throws a TypeError
                             /\ CallbackEnds(AuthenticationFailed(
                                    "Cannot read properties of null"))
                             /\ calls' = <<>>
                             /\ discovery' = NoDiscovery
                             /\ oidcConfig' = NoConfig
                        ELSE IF StateExpired(now, decoded.val)
                        THEN /\ CallbackEnds(ErrorResponse(400, "State parameter expired"))
                             /\ calls' = <<>>
                             /\ discovery' = NoDiscovery
                             /\ oidcConfig' = NoConfig
                        ELSE LET config == getOidcConfig(env) IN
                             IF ~config.ok
                             THEN /\ CallbackEnds(
                                        ErrorResponse(500, "Server configuration error"))
                                  /\ calls' = <<"getOidcConfiguration">>
                                  /\ discovery' = NoDiscovery
                                  /\ oidcConfig' = NoConfig
                             ELSE IF CacheHit(discoveryCache, config.issuer, now)
                             THEN /\ discovery' = CachedDiscovery
                                  /\ TokenExchange(
                                       [ok |-> TRUE, issuer |-> config.issuer,
                                        clientId |-> config.clientId,
                                        clientSecret |-> config.clientSecret,
                                        redirectUri |-> config.redirectUri,
                                        endpoints |->
                                            discoveryCache[config.issuer].endpoints],
                                       <<"getOidcConfiguration">>)
                             ELSE \* await httpsGet(discoveryUrl)
                                  /\ calls' = <<"getOidcConfiguration",
                                                "GET openid-configuration">>
                                  /\ discovery' = NoDiscovery
                                  /\ oidcConfig' =
                                       [ok |-> TRUE, issuer |-> config.issuer,
                                        clientId |-> config.clientId,
                                        clientSecret |-> config.clientSecret,
                                        redirectUri |-> config.redirectUri,
                                        endpoints |-> NoEndpoints]
                                  /\ pc' = "callback:discovery"
                                  /\ res' = NoRes
        /\ UNCHANGED <<env, now, discoveryCache, locals, issued>>

CallbackHandler ==
    /\ pc = "idle"
    /\ \E q \in CallbackRequests(now) : CallbackHandlerOf(q)
    /\ UNCHANGED probe

\* the discovery request of a callback completes and the handler goes on to the token
\* exchange
CallbackDiscoveryResponseOn(outcome) ==
    /\ pc = "callback:discovery"
    /\ discovery' = outcome
    /\ discoveryCache' = CacheAfter(discoveryCache, outcome, oidcConfig.issuer, now)
    /\ TokenExchange(
         [oidcConfig EXCEPT !.endpoints = EndpointsFor(outcome, env, oidcConfig.issuer)],
         calls)
    /\ UNCHANGED <<env, now, req, stateData, locals, issued>>

CallbackDiscoveryResponse ==
    /\ \E outcome \in DiscoveryOutcomes : CallbackDiscoveryResponseOn(outcome)
    /\ UNCHANGED probe

\* -- the token response

\* what httpPost resolves or rejects with: a JSON object (its members error,
\* error_description, access_token), a body that is no JSON (resolved as a string), the
\* JSON null, a network error
TokenResponse(kind, error, description, token) ==
    [kind |-> kind, error |-> error, error_description |-> description,
     access_token |-> token]

TokenOutcomes ==
    {TokenResponse("json", Unset, Unset, Val("access-token")),
     TokenResponse("json", Val("invalid_grant"), Val("bad code"), Unset),
     TokenResponse("json", Val("invalid_grant"), Unset, Unset),
     TokenResponse("json", Unset, Unset, Unset),
     TokenResponse("text", Unset, Unset, Unset),
     TokenResponse("null", Unset, Unset, Unset),
     TokenResponse("network", Unset, Unset, Unset)}

\* tokenResponse.error, .error_description, .access_token
TokenFields(r) ==
    [error |-> r.error, error_description |-> r.error_description,
     access_token |-> r.access_token]

\* no token response counted as failed
TokenExchangeNeverFailed(r) == FALSE

\* a token response counted as failed only when it describes its error
TokenExchangeFailedIfDescribed(r) == ~Falsy(r.error) /\ ~Falsy(r.error_description)

\* if (tokenResponse.error)
TokenExchangeFailed(r) == ~Falsy(r.error)

\* the handler ends in its outer catch
CallbackThrows(details) ==
    /\ CallbackEnds(AuthenticationFailed(details))
    /\ UNCHANGED <<calls, locals>>

\* the token response arrives; the handler checks it and asks for the user info.
\* new URL(userInfoUrl) throws for an endpoint that is undefined
CallbackTokenResponseOn(r) ==
    /\ pc = "callback:token"
    /\ IF r.kind = "network" THEN CallbackThrows("connect ECONNREFUSED")
       ELSE IF r.kind = "null" THEN CallbackThrows("Cannot read properties of null")
       ELSE IF TokenExchangeFailed(r)
       THEN /\ CallbackEnds(AuthenticationFailed(
                   "Token exchange failed: " \o TemplateStr(r.error_description)))
            /\ locals' = [locals EXCEPT !.tokenResponse = TokenFields(r)]
            /\ UNCHANGED calls
       ELSE IF ~oidcConfig.endpoints.userinfo_endpoint.set
       THEN /\ CallbackEnds(AuthenticationFailed("Invalid URL"))
            /\ locals' = [locals EXCEPT !.tokenResponse = TokenFields(r)]
            /\ UNCHANGED calls
       ELSE /\ locals' = [locals EXCEPT !.tokenResponse = TokenFields(r)]
            /\ calls' = Append(calls, "GET userinfo")
            /\ pc' = "callback:userinfo"
            /\ res' = NoRes
    /\ UNCHANGED <<env, now, discoveryCache, req, oidcConfig, stateData, discovery,
                   issued>>

CallbackTokenResponse ==
    /\ \E r \in TokenOutcomes : CallbackTokenResponseOn(r)
    /\ UNCHANGED probe

\* -- the user info response

UserInfo(kind, sub, email, name, given, family) ==
    [kind |-> kind, sub |-> sub, email |-> email, name |-> name, given_name |-> given,
     family_name |-> family]

\* "u.n@x.y"
EmailText == <<117, 46, 110, 64, 120, 46, 121>>

\* "u+1@x.y"
PlusEmailText == <<117, 43, 49, 64, 120, 46, 121>>

\* a JSON object with some of sub, email, name, given_name, family_name, the JSON null, a
\* body that does not parse; a network error.  The status is not looked at.
UserInfoOutcomes ==
    {UserInfo("json", Str(<<49>>), Str(EmailText), Absent, Str(<<71>>), Str(<<70>>)),
     UserInfo("json", Str(<<49>>), Str(PlusEmailText), Str(<<65, 32, 66, 32, 67>>), Absent,
              Absent),
     UserInfo("json", Absent, Absent, Str(<<65>>), Absent, Absent),
     UserInfo("null", Absent, Absent, Absent, Absent, Absent),
     UserInfo("parse", Absent, Absent, Absent, Absent, Absent),
     UserInfo("network", Absent, Absent, Absent, Absent, Absent)}

\* name.split(' ')[0]
FirstWord(name) ==
    LET i == IndexOf(name, <<32>>) IN IF i = -1 THEN name ELSE SubSeq(name, 1, i)

\* name.split(' ').slice(1).join(' ')
OtherWords(name) ==
    LET i == IndexOf(name, <<32>>)
    IN  IF i = -1 THEN <<>> ELSE SubSeq(name, i + 2, Len(name))

\* the userData literal taking the userId of the state when it has one
UserDataOfStateUserId(userInfo, t) ==
    [userId |-> IF Member(stateData, KeyUserId).t = "string"
                THEN Str(Member(stateData, KeyUserId).s)
                ELSE userInfo.sub,
     email |-> userInfo.email,
     firstName |-> IF Truthy(userInfo.given_name) THEN userInfo.given_name.text
                   ELSE IF userInfo.name.present THEN FirstWord(userInfo.name.text)
                   ELSE <<>>,
     lastName |-> IF Truthy(userInfo.family_name) THEN userInfo.family_name.text
                  ELSE IF userInfo.name.present THEN OtherWords(userInfo.name.text)
                  ELSE <<>>,
     registrationDate |-> ToISOString(t),
     note |-> "User authenticated via Okta"]

\* the userData literal
UserDataOf(userInfo, t) ==
    [userId |-> userInfo.sub,
     email |-> userInfo.email,
     firstName |-> IF Truthy(userInfo.given_name) THEN userInfo.given_name.text
                   ELSE IF userInfo.name.present THEN FirstWord(userInfo.name.text)
                   ELSE <<>>,
     lastName |-> IF Truthy(userInfo.family_name) THEN userInfo.family_name.text
                  ELSE IF userInfo.name.present THEN OtherWords(userInfo.name.text)
                  ELSE <<>>,
     registrationDate |-> ToISOString(t),
     note |-> "User authenticated via Okta"]

\* -- the fallback redirect of the inner catch

\* String(v) of a JSON value
RECURSIVE JsToString(_)
JsToString(v) ==
    IF v.t = "string" THEN v.s
    ELSE IF v.t = "number" THEN JsonNumber(v.n)
    ELSE IF v.t = "boolean" THEN (IF v.b THEN <<116, 114, 117, 101>>
                                  ELSE <<102, 97, 108, 115, 101>>)
    ELSE IF v.t = "null" THEN <<110, 117, 108, 108>>
    ELSE IF v.t = "undefined" THEN UndefinedText
    ELSE <<91, 111, 98, 106, 101, 99, 116, 32, 79, 98, 106, 101, 99, 116, 93>>

\* "https://afdevapi.developer.azure-api.net"
DefaultPortalUrlText ==
    <<104, 116, 116, 112, 115, 58, 47, 47, 97, 102, 100, 101, 118, 97, 112, 105, 46, 100,
      101, 118, 101, 108, 111, 112, 101, 114, 46, 97, 122, 117, 114, 101, 45, 97, 112,
      105, 46, 110, 101, 116>>

\* process.env.APIM_PORTAL_URL || 'https://afdevapi.developer.azure-api.net'
PortalBaseUrl(e) ==
    IF Truthy(e.APIM_PORTAL_URL) THEN e.APIM_PORTAL_URL.text ELSE DefaultPortalUrlText

\* the characters of a URL scheme after its first letter
SchemeChars == (65..90) \cup (97..122) \cup (48..57) \cup {43, 45, 46}

\* whether new URL(u), without a base, accepts u: u needs a scheme, and after the scheme
\* http or https, with the slashes that follow it skipped, a host.  (Which characters a
\* host may be made of is not looked at.)
ParsesAsUrl(u) ==
    LET colon == IndexOf(u, <<58>>)
        scheme == SubSeq(u, 1, colon)
        lower == [i \in 1..Len(scheme) |->
                    IF scheme[i] \in 65..90 THEN scheme[i] + 32 ELSE scheme[i]]
        rest == SubSeq(u, colon + 2, Len(u))
        slashes == {i \in 0..Len(rest) : \A j \in 1..i : rest[j] \in {47, 92}}
        skip == CHOOSE i \in slashes : \A j \in slashes : j <= i
    IN  /\ colon >= 1
        /\ u[1] \in (65..90) \cup (97..122)
        /\ \A i \in 1..colon : u[i] \in SchemeChars
        /\ lower \in {HttpText, HttpText \o <<115>>}
             => skip < Len(rest) /\ rest[skip + 1] \notin {63, 35}

\* every member of userData, the empty ones too, then the salt
FallbackParamsOfAll(data, salt) ==
    << <<"userId", ToStr(data.userId)>>, <<"email", ToStr(data.email)>>,
       <<"firstName", data.firstName>>, <<"lastName", data.lastName>>,
       <<"registrationDate", data.registrationDate>>, <<"note", data.note>>,
       <<"salt", JsToString(salt)>> >>

\* the members of userData that are truthy, in the order of Object.entries, then the salt
FallbackParams(data, salt) ==
    LET opt(k, v) == IF Truthy(v) THEN << <<k, v.text>> >> ELSE <<>>
        txt(k, t) == IF t # <<>> THEN << <<k, t>> >> ELSE <<>>
    IN  opt("userId", data.userId) \o opt("email", data.email)
        \o txt("firstName", data.firstName) \o txt("lastName", data.lastName)
        \o << <<"registrationDate", data.registrationDate>>, <<"note", data.note>> >>
        \o << <<"salt", JsToString(salt)>> >>

\* the inner catch: the response it leaves.  stateData.returnUrl.startsWith throws unless
\* the returnUrl is a string, new URL throws for what is no URL, and what is thrown
\* here goes to the outer catch
FallbackResponse(e, state, data) ==
    LET returnUrl == Member(state, KeyReturnUrl)
        params == FallbackParams(data, Member(state, KeySalt))
    IN  IF returnUrl.t \in {"undefined", "null"}
        THEN AuthenticationFailed("Cannot read properties of undefined")
        ELSE IF returnUrl.t # "string"
        THEN AuthenticationFailed("stateData.returnUrl.startsWith is not a function")
        ELSE IF StartsWith(returnUrl.s, HttpText)
        THEN IF ParsesAsUrl(returnUrl.s)
             THEN [status |-> 302, body |-> NoBody,
                   location |-> [set |-> TRUE,
                                 url |-> [ref |-> returnUrl.s, base |-> <<>>],
                                 query |-> params]]
             ELSE AuthenticationFailed("Invalid URL")
        ELSE IF ParsesAsUrl(PortalBaseUrl(e))
        THEN [status |-> 302, body |-> NoBody,
              location |-> [set |-> TRUE,
                            url |-> [ref |-> returnUrl.s, base |-> PortalBaseUrl(e)],
                            query |-> params]]
        ELSE AuthenticationFailed("Invalid URL")

\* the try block threw: the handler ends with the response of the inner catch
ProvisioningFails(apimError, data, ls) ==
    /\ CallbackEnds(FallbackResponse(env, stateData, data))
    /\ locals' = [ls EXCEPT !.apimError = Val(apimError)]
    /\ UNCHANGED calls

\* -- provisioning

\* userData.email.replace('@', '_').replace(/\./g, '_')
ApimUserId(email) ==
    LET s == ReplaceFirst(email, <<64>>, <<95>>)
    IN  [i \in 1..Len(s) |-> IF s[i] = 46 THEN 95 ELSE s[i]]

\* the manual token passed over when the managed identity is there
ManualTokenUnlessIdentity(e) ==
    ~Falsy(e.APIM_ACCESS_TOKEN) /\ (Falsy(e.IDENTITY_ENDPOINT) \/ Falsy(e.IDENTITY_HEADER))

\* getAzureAccessToken: if (manualToken)
ManualToken(e) == ~Falsy(e.APIM_ACCESS_TOKEN)

\* getAzureAccessToken followed by the request it is wanted for: the manual token is used
\* at once, the managed identity is asked for one (await), and without either the call
\* throws
WithAzureToken(request, await, awaitIdentity, data, ls) ==
    IF ManualToken(env)
    THEN /\ locals' = [ls EXCEPT !.azureToken = env.APIM_ACCESS_TOKEN]
         /\ calls' = Append(calls, request)
         /\ pc' = await
         /\ res' = NoRes
    ELSE IF Falsy(env.IDENTITY_ENDPOINT) \/ Falsy(env.IDENTITY_HEADER)
    THEN ProvisioningFails("Managed Identity not available", data, ls)
    ELSE /\ locals' = ls
         /\ calls' = Append(calls, "GET identity")
         /\ pc' = awaitIdentity
         /\ res' = NoRes

\* the try block up to its first await: the APIM user id, createOrUpdateUserInAPIM
Provision(data) ==
    LET ls == [locals EXCEPT !.userData = data] IN
    IF ~data.email.present
    THEN \* userData.email.replace throws a TypeError
         ProvisioningFails("Cannot read properties of undefined", data, ls)
    ELSE LET withId == [ls EXCEPT !.apimUserId = Str(ApimUserId(data.email.text))] IN
         IF Falsy(env.APIM_SUBSCRIPTION_ID) \/ Falsy(env.APIM_RESOURCE_GROUP)
            \/ Falsy(env.APIM_SERVICE_NAME)
         THEN ProvisioningFails("Missing APIM configuration", data, withId)
         ELSE WithAzureToken("PUT user", "callback:put", "callback:identity:put", data,
                             withId)

\* the user info arrives; the handler builds userData and starts provisioning
CallbackUserInfoResponseOn(r) ==
    /\ pc = "callback:userinfo"
    /\ IF r.kind = "network" THEN CallbackThrows("connect ECONNREFUSED")
       ELSE IF r.kind = "parse" THEN CallbackThrows("Failed to parse response")
       ELSE IF r.kind = "null" THEN CallbackThrows("Cannot read properties of null")
       ELSE Provision(UserDataOf(r, now))
    /\ UNCHANGED <<env, now, discoveryCache, req, oidcConfig, stateData, discovery,
                   issued>>

CallbackUserInfoResponse ==
    /\ \E r \in UserInfoOutcomes : CallbackUserInfoResponseOn(r)
    /\ UNCHANGED probe

\* the managed identity answers: a token, a JSON body without access_token, a body that
\* does not parse, a network error
IdentityOutcomes ==
    {[kind |-> "json", access_token |-> Val("identity-token")],
     [kind |-> "json", access_token |-> Unset],
     [kind |-> "parse", access_token |-> Unset],
     [kind |-> "network", access_token |-> Unset]}

CallbackIdentityResponseOn(r) ==
    /\ pc \in {"callback:identity:put", "callback:identity:sso"}
    /\ IF r.kind = "network"
       THEN ProvisioningFails("connect ECONNREFUSED", locals.userData, locals)
       ELSE IF r.kind = "parse"
       THEN ProvisioningFails("Failed to parse managed identity response",
                              locals.userData, locals)
       ELSE IF Falsy(r.access_token)
       THEN ProvisioningFails("Failed to get managed identity token",
                              locals.userData, locals)
       ELSE /\ locals' = [locals EXCEPT !.azureToken = r.access_token]
            /\ calls' = Append(calls, IF pc = "callback:identity:put" THEN "PUT user"
                                       ELSE "POST generateSsoUrl")
            /\ pc' = IF pc = "callback:identity:put" THEN "callback:put"
                     ELSE "callback:sso"
            /\ res' = NoRes
    /\ UNCHANGED <<env, now, discoveryCache, req, oidcConfig, stateData, discovery,
                   issued>>

CallbackIdentityResponse ==
    /\ \E r \in IdentityOutcomes : CallbackIdentityResponseOn(r)
    /\ UNCHANGED probe

\* what httpPutJson and httpPostJson end with: a 2xx status with a JSON body (an empty
\* body reads as {}), another status, a body that does not parse, a network error
ManagementOutcomeKinds == {"ok", "status", "parse", "network"}

\* the message of the Error they reject with
ManagementError(kind) ==
    IF kind = "status" THEN "HTTP 500"
    ELSE IF kind = "parse" THEN "Failed to parse response"
    ELSE "connect ECONNREFUSED"

\* the PUT of the user is answered; on success the handler asks for the SSO URL
CallbackPutResponseOn(kind) ==
    /\ pc = "callback:put"
    /\ IF kind # "ok"
       THEN ProvisioningFails(ManagementError(kind), locals.userData, locals)
       ELSE WithAzureToken("POST generateSsoUrl", "callback:sso", "callback:identity:sso",
                           locals.userData, locals)
    /\ UNCHANGED <<env, now, discoveryCache, req, oidcConfig, stateData, discovery,
                   issued>>

CallbackPutResponse ==
    /\ \E kind \in ManagementOutcomeKinds : CallbackPutResponseOn(kind)
    /\ UNCHANGED probe

\* -- the SSO redirect

\* "signin-sso"
SigninSsoText ==
    <<115, 105, 103, 110, 105, 110, 45, 115, 115, 111>>

\* ".portal.azure-api.net"
PortalDomainText ==
    <<46, 112, 111, 114, 116, 97, 108, 46, 97, 122, 117, 114, 101, 45, 97, 112, 105, 46,
      110, 101, 116>>

\* ".developer.azure-api.net"
DeveloperDomainText ==
    <<46, 100, 101, 118, 101, 108, 111, 112, 101, 114, 46, 97, 122, 117, 114, 101, 45, 97,
      112, 105, 46, 110, 101, 116>>

\* "returnUrl="
ReturnUrlEqText ==
    <<114, 101, 116, 117, 114, 110, 85, 114, 108, 61>>

\* "/signin-sso?token="
SsoPathText ==
    <<47, 115, 105, 103, 110, 105, 110, 45, 115, 115, 111, 63, 116, 111, 107, 101, 110, 61>>

\* "&returnUrl="
AndReturnUrlEqText ==
    <<38, 114, 101, 116, 117, 114, 110, 85, 114, 108, 61>>

\* the Location with the returnUrl appended to every SSO URL, whether it has one or not
SsoUrlAlwaysAppends(e, ssoResponse, returnUrl) ==
    IF Truthy(ssoResponse) /\ IndexOf(ssoResponse.text, SigninSsoText) # -1
    THEN LET fixed == ReplaceFirst(ssoResponse.text, PortalDomainText,
                                   DeveloperDomainText)
         IN  fixed \o (IF IndexOf(fixed, <<63>>) # -1 THEN <<38>> ELSE <<63>>)
             \o ReturnUrlEqText \o EncodeURIComponent(JsToString(returnUrl))
    ELSE PortalBaseUrl(e) \o SsoPathText \o EncodeURIComponent(ToStr(ssoResponse))
         \o AndReturnUrlEqText \o EncodeURIComponent(JsToString(returnUrl))

\* the Location made of response.value: a string with 'signin-sso' in it is taken as the
\* URL, its domain corrected and the returnUrl appended unless it has one; anything else
\* is taken as the token of a URL built on the portal URL
SsoUrl(e, ssoResponse, returnUrl) ==
    IF Truthy(ssoResponse) /\ IndexOf(ssoResponse.text, SigninSsoText) # -1
    THEN LET fixed == ReplaceFirst(ssoResponse.text, PortalDomainText,
                                   DeveloperDomainText)
         IN  IF IndexOf(fixed, ReturnUrlEqText) = -1
             THEN fixed \o (IF IndexOf(fixed, <<63>>) # -1 THEN <<38>> ELSE <<63>>)
                  \o ReturnUrlEqText \o EncodeURIComponent(JsToString(returnUrl))
             ELSE fixed
    ELSE PortalBaseUrl(e) \o SsoPathText \o EncodeURIComponent(ToStr(ssoResponse))
         \o AndReturnUrlEqText \o EncodeURIComponent(JsToString(returnUrl))

\* "https://a.portal.azure-api.net/signin-sso?token=t"
SsoUrlPortalText ==
    <<104, 116, 116, 112, 115, 58, 47, 47, 97, 46, 112, 111, 114, 116, 97, 108, 46, 97,
      122, 117, 114, 101, 45, 97, 112, 105, 46, 110, 101, 116, 47, 115, 105, 103, 110,
      105, 110, 45, 115, 115, 111, 63, 116, 111, 107, 101, 110, 61, 116>>

\* "https://a.developer.azure-api.net/signin-sso?token=t&returnUrl=%2F"
SsoUrlCompleteText ==
    <<104, 116, 116, 112, 115, 58, 47, 47, 97, 46, 100, 101, 118, 101, 108, 111, 112, 101,
      114, 46, 97, 122, 117, 114, 101, 45, 97, 112, 105, 46, 110, 101, 116, 47, 115, 105,
      103, 110, 105, 110, 45, 115, 115, 111, 63, 116, 111, 107, 101, 110, 61, 116, 38,
      114, 101, 116, 117, 114, 110, 85, 114, 108, 61, 37, 50, 70>>

\* the values of response.value: none, a token, URLs with and without a query, a
\* returnUrl, the portal domain
SsoValues ==
    {Absent, Str(<<116>>), Str(SsoUrlPortalText), Str(SsoUrlCompleteText),
     Str(<<47>> \o SigninSsoText)}

\* the responses to generateSsoUrl: a JSON object, the JSON null, a failure
SsoOutcomes ==
    {[kind |-> "ok", null |-> FALSE, value |-> v] : v \in SsoValues}
    \cup {[kind |-> "ok", null |-> TRUE, value |-> Absent]}
    \cup {[kind |-> k, null |-> FALSE, value |-> Absent] :
             k \in ManagementOutcomeKinds \ {"ok"}}

\* generateSsoUrl is answered and the handler redirects
CallbackSsoResponseOn(r) ==
    /\ pc = "callback:sso"
    /\ IF r.kind # "ok"
       THEN ProvisioningFails(ManagementError(r.kind), locals.userData, locals)
       ELSE IF r.null
       THEN \* response.value of null throws
            ProvisioningFails("Cannot read properties of null", locals.userData, locals)
       ELSE /\ CallbackEnds([status |-> 302, body |-> NoBody,
                             location |->
                                 [set |-> TRUE,
                                  url |-> SsoUrl(env, r.value,
                                                 Member(stateData, KeyReturnUrl)),
                                  query |-> <<>>]])
            /\ locals' = [locals EXCEPT !.ssoResponse = r.value]
            /\ UNCHANGED calls
    /\ UNCHANGED <<env, now, discoveryCache, req, oidcConfig, stateData, discovery,
                   issued>>

CallbackSsoResponse ==
    /\ \E r \in SsoOutcomes : CallbackSsoResponseOn(r)
    /\ UNCHANGED probe

Next ==
    \/ Tick
    \/ CallbackHandler
    \/ CallbackDiscoveryResponse
    \/ CallbackTokenResponse
    \/ CallbackUserInfoResponse
    \/ CallbackIdentityResponse
    \/ CallbackPutResponse
    \/ CallbackSsoResponse
    \/ DelegationHandler
    \/ DelegationDiscoveryResponse
    \/ InvocationReturns

Spec == Init /\ [][Next]_vars

\* --------------------------------------- every outbound call completes

\* Each request a handler awaits is answered in the end, with a response or an error
\* (the promises of httpsGet, httpPost, httpGetWithAuth, httpPutJson and httpPostJson
\* settle on 'end' or 'error'), and the runtime sends the response of a handler that
\* has returned: an invocation that has begun does not stay where it is for ever.
Positions ==
    {"idle", "delegation:discovery", "callback:discovery", "callback:token",
     "callback:userinfo", "callback:identity:put", "callback:put",
     "callback:identity:sso", "callback:sso", "done"}

Proceeds ==
    /\ pc # "idle"
    /\ pc' \in Positions
    /\ pc' # pc

CallsComplete == WF_pc(Proceeds)

\* a configuration with the managed identity, and one that cannot be loaded
LiveEnvironments ==
    {e \in Environments :
        \/ ~e.OIDC_ISSUER.set
        \/ e.IDENTITY_ENDPOINT.set /\ ~e.APIM_ACCESS_TOKEN.set}

InitLive ==
    /\ env \in LiveEnvironments
    /\ now = StartTime
    /\ discoveryCache = [i \in Issuers |-> NoEntry]
    /\ pc = "idle"
    /\ req = NoRequest
    /\ res = NoRes
    /\ oidcConfig = NoConfig
    /\ stateData = JUndef
    /\ discovery = NoDiscovery
    /\ calls = <<>>
    /\ locals = NoLocals
    /\ issued = {}
    /\ probe = NoProbe

SpecLive == InitLive /\ [][Next]_vars /\ CallsComplete

\* ------------------------------------- the states the callback accepted

\* The handlers as above, under a configuration that is complete, with a record kept
\* beside the program of the state parameters with which callback invocations went on
\* past the state checks.  The program itself keeps no such record.
ReplayEnvironments ==
    {e \in Environments :
        /\ getOidcConfig(e).ok
        /\ e.APIM_VALIDATION_KEY = BaseEnv.APIM_VALIDATION_KEY
        /\ e.APIM_PORTAL_URL = BaseEnv.APIM_PORTAL_URL
        /\ e.APIM_SERVICE_NAME.set
        /\ ~e.APIM_ACCESS_TOKEN.set /\ e.IDENTITY_ENDPOINT.set}

\* how many accepted states are noted
MaxNoted == 1

NoneAccepted == [fn |-> "accepted", states |-> {}]

InitReplay ==
    /\ env \in ReplayEnvironments
    /\ now = StartTime
    /\ discoveryCache = [i \in Issuers |-> NoEntry]
    /\ pc = "idle"
    /\ req = NoRequest
    /\ res = NoRes
    /\ oidcConfig = NoConfig
    /\ stateData = JUndef
    /\ discovery = NoDiscovery
    /\ calls = <<>>
    /\ locals = NoLocals
    /\ issued = {}
    /\ probe = NoneAccepted

\* the invocation is over; the state of a callback that went on past the state checks
\* is noted
InvocationReturnsNoted ==
    /\ pc = "done"
    /\ pc' = "idle"
    /\ req' = NoRequest
    /\ res' = NoRes
    /\ oidcConfig' = NoConfig
    /\ stateData' = JUndef
    /\ discovery' = NoDiscovery
    /\ calls' = <<>>
    /\ locals' = NoLocals
    /\ probe' = IF /\ req.handler = "auth-callback" /\ calls # <<>>
                    /\ Cardinality(probe.states) < MaxNoted
                 THEN [probe EXCEPT !.states = @ \cup {req.state}]
                 ELSE probe
    /\ UNCHANGED <<env, now, discoveryCache, issued>>

NextReplay ==
    \/ Tick
    \/ CallbackHandler
    \/ CallbackDiscoveryResponse
    \/ CallbackTokenResponse
    \/ CallbackUserInfoResponse
    \/ CallbackIdentityResponse
    \/ CallbackPutResponse
    \/ CallbackSsoResponse
    \/ DelegationHandler
    \/ DelegationDiscoveryResponse
    \/ InvocationReturnsNoted

SpecReplay == InitReplay /\ [][NextReplay]_vars

\* ---------------------------- two callbacks whose states differ in userId

\* Two callback invocations, one after the other, with a code and with states that are
\* alike but for the userId.  The second starts from what the first started from (the
\* discovery cache empty, the same instant); what each was answered and what it did is
\* kept, beside the program, when it returns.
TwinUserIds == <<Absent, Str(<<117>>), Str(<<118>>)>>

TwinRequest(u) ==
    [NoRequest EXCEPT
        !.handler = "auth-callback",
        !.code = Str(<<99>>),
        !.state = Str(EncodeState(StateData(Str(<<47, 97>>), Str(<<115>>), u,
                                            StartTime)))]

TwinEnvironments ==
    {e \in Environments : e.IDENTITY_ENDPOINT.set /\ ~e.APIM_ACCESS_TOKEN.set}

\* what the invocation did: its calls, the user it provisioned, its response
Effects ==
    [calls |-> calls,
     userId |-> locals.userData.userId,
     apimUserId |-> locals.apimUserId,
     res |-> res]

InitTwin ==
    /\ env \in TwinEnvironments
    /\ now = StartTime
    /\ discoveryCache = [i \in Issuers |-> NoEntry]
    /\ pc = "idle"
    /\ req = NoRequest
    /\ res = NoRes
    /\ oidcConfig = NoConfig
    /\ stateData = JUndef
    /\ discovery = NoDiscovery
    /\ calls = <<>>
    /\ locals = NoLocals
    /\ issued = {}
    /\ probe = [fn |-> "twin", runs |-> <<>>, answers |-> <<>>]

TwinCallbackHandler ==
    /\ pc = "idle"
    /\ Len(probe.runs) < 2
    /\ \E i \in DOMAIN TwinUserIds :
        /\ \A j \in i..Len(TwinUserIds) : probe.runs # <<>> =>
               TwinRequest(TwinUserIds[j]).state # probe.runs[1].state
        /\ CallbackHandlerOf(TwinRequest(TwinUserIds[i]))
    /\ UNCHANGED probe

TwinInvocationReturns ==
    /\ pc = "done"
    /\ pc' = "idle"
    /\ req' = NoRequest
    /\ res' = NoRes
    /\ oidcConfig' = NoConfig
    /\ stateData' = JUndef
    /\ discovery' = NoDiscovery
    /\ calls' = <<>>
    /\ locals' = NoLocals
    /\ discoveryCache' = [i \in Issuers |-> NoEntry]
    /\ probe' = [probe EXCEPT !.runs = Append(@, [state |-> req.state,
                                                 answers |-> probe.answers,
                                                 effects |-> Effects]),
                              !.answers = <<>>]
    /\ UNCHANGED <<env, now, issued>>

\* the request the invocation waits for is answered r: r is kept beside the program
Answered(r) ==
    probe' = [probe EXCEPT !.answers = Append(@, [request |-> pc, response |-> r])]

TwinDiscoveryResponse ==
    \E outcome \in DiscoveryOutcomes :
        CallbackDiscoveryResponseOn(outcome) /\ Answered(outcome)

TwinTokenResponse ==
    \E r \in TokenOutcomes : CallbackTokenResponseOn(r) /\ Answered(r)

TwinUserInfoResponse ==
    \E r \in UserInfoOutcomes : CallbackUserInfoResponseOn(r) /\ Answered(r)

TwinIdentityResponse ==
    \E r \in IdentityOutcomes : CallbackIdentityResponseOn(r) /\ Answered(r)

TwinPutResponse ==
    \E kind \in ManagementOutcomeKinds : CallbackPutResponseOn(kind) /\ Answered(kind)

TwinSsoResponse ==
    \E r \in SsoOutcomes : CallbackSsoResponseOn(r) /\ Answered(r)

NextTwin ==
    \/ TwinCallbackHandler
    \/ TwinDiscoveryResponse
    \/ TwinTokenResponse
    \/ TwinUserInfoResponse
    \/ TwinIdentityResponse
    \/ TwinPutResponse
    \/ TwinSsoResponse
    \/ TwinInvocationReturns

SpecTwin == InitTwin /\ [][NextTwin]_vars

\* ------------------------------------- validateApimSignature on its own

\* the longest salt, returnUrl or userId of the direct calls
MaxStrLen == 1

SigAlphabet == {97, 10}
SigValues == {Absent} \cup {Str(t) : t \in SeqsUpTo(SigAlphabet, MaxStrLen)}

KeyEnvironments ==
    {BaseEnv,
     [BaseEnv EXCEPT !.APIM_VALIDATION_KEY = Absent],
     [BaseEnv EXCEPT !.APIM_VALIDATION_KEY = Str(<<>>)]}

\* Where a sig parameter comes from: nobody signed it (it is absent or some text), or a
\* holder of `key` signed `salt` and `field`.
Unsigned(sig) == [signed |-> FALSE, key |-> <<>>, salt |-> Absent, field |-> Absent,
                  sig |-> sig]
Signed(k, salt, field) == [signed |-> TRUE, key |-> k, salt |-> salt, field |-> field,
                           sig |-> SignedBy(k, salt, field)]

\* the sig parameters tried with a request: unsigned ones, the gateway's signature for
\* the request's salt and either field, for another salt, for another field, and another
\* key's signature
SigOrigins(salt, returnUrl, userId) ==
    {Unsigned(SigAbsent), Unsigned(SigText(<<>>)), Unsigned(SigText(<<120>>))}
    \cup {Signed(GatewayKeyBytes, s, f) : s \in SigValues, f \in {returnUrl, userId}}
    \cup {Signed(GatewayKeyBytes, salt, f) : f \in SigValues}
    \cup {Signed(OtherKeyBytes, salt, f) : f \in {returnUrl, userId}}

InitSig ==
    /\ Init
    /\ env \in KeyEnvironments

ValidateSignatureCall ==
    /\ probe.fn = "none"
    /\ \E op \in {Unset} \cup {Val(o) : o \in Operations},
          salt \in SigValues, returnUrl \in SigValues, userId \in SigValues :
        \E origin \in SigOrigins(salt, returnUrl, userId) :
            probe' = [fn |-> "validateApimSignature", operation |-> op, salt |-> salt,
                      returnUrl |-> returnUrl, userId |-> userId, origin |-> origin,
                      result |-> validateApimSignature(env, op, salt, returnUrl, userId,
                                                       origin.sig)]
    /\ UNCHANGED <<env, now, discoveryCache, pc, req, res, oidcConfig, stateData,
                   discovery, calls, locals, issued>>

NextSig == ValidateSignatureCall

SpecSig == InitSig /\ [][NextSig]_vars

\* -------------------------------------------- the state codec on its own

StateAlphabet == {97, 10, 34, 92, 233}

CodecReturnUrls == {Absent} \cup {Str(t) : t \in SeqsUpTo(StateAlphabet, MaxStrLen)}
CodecSalts == {Absent, Str(<<>>), Str(<<92, 34>>)}
CodecUserIds == {Absent, Str(<<117>>), Str(<<233, 10>>)}
CodecTimestamps == {0, StartTime, StartTime + StateMaxAge + 1}

\* the delegation handler's encoding of a state record
EncodeStateCall ==
    /\ probe.fn = "none"
    /\ \E r \in CodecReturnUrls, s \in CodecSalts, u \in CodecUserIds,
          t \in CodecTimestamps :
        probe' = [fn |-> "encode", returnUrl |-> r, salt |-> s, userId |-> u,
                  timestamp |-> t, wire |-> EncodeState(StateData(r, s, u, t)),
                  decoded |-> JFail]
    /\ UNCHANGED <<env, now, discoveryCache, pc, req, res, oidcConfig, stateData,
                   discovery, calls, locals, issued>>

\* the callback handler's decoding of what was encoded
DecodeStateCall ==
    /\ probe.fn = "encode"
    /\ probe' = [probe EXCEPT !.fn = "decode", !.decoded = DecodeState(probe.wire)]
    /\ UNCHANGED <<env, now, discoveryCache, pc, req, res, oidcConfig, stateData,
                   discovery, calls, locals, issued>>

NextCodec ==
    \/ EncodeStateCall
    \/ DecodeStateCall

InitCodec ==
    /\ Init
    /\ env = BaseEnv

SpecCodec == InitCodec /\ [][NextCodec]_vars

\* ------------------------------------------------------- health handler

\* the instants of the health requests: the epoch, the ends and starts of a second, a
\* minute, an hour and a day, and the last instant a 32-bit count of milliseconds holds
HealthTimes ==
    {0, 1, 999, 1000, 59999, 60000, 3599999, 3600000, 86399999, 86400000, StartTime,
     2147483647}

HealthRequests ==
    {[handler |-> "health", method |-> m, query |-> q] :
        m \in {"GET", "POST", "PUT", "DELETE", "HEAD", "OPTIONS"},
        q \in {"", "verbose=1"}}

InitHealth ==
    /\ env = BaseEnv
    /\ now = 0
    /\ discoveryCache = [i \in Issuers |-> NoEntry]
    /\ pc = "idle"
    /\ req = NoRequest
    /\ res = NoRes
    /\ oidcConfig = NoConfig
    /\ stateData = JUndef
    /\ discovery = NoDiscovery
    /\ calls = <<>>
    /\ locals = NoLocals
    /\ issued = {}
    /\ probe = NoProbe

\* time passes between the invocations
TickHealth ==
    /\ pc = "idle"
    /\ \E t \in HealthTimes :
        /\ t > now
        /\ now' = t
    /\ UNCHANGED <<env, discoveryCache, pc, req, res, oidcConfig, stateData, discovery,
                   calls, locals, issued, probe>>

\* the health handler: it looks at nothing of the request
HealthHandler ==
    /\ pc = "idle"
    /\ \E q \in HealthRequests : req' = q
    /\ res' = [status |-> 200,
               body |-> [status |-> "healthy", timestamp |-> ToISOString(now)],
               location |-> NoLocation]
    /\ pc' = "done"
    /\ UNCHANGED <<env, now, discoveryCache, oidcConfig, stateData, discovery, calls,
                   locals, issued, probe>>

NextHealth ==
    \/ TickHealth
    \/ HealthHandler
    \/ InvocationReturns

SpecHealth == InitHealth /\ [][NextHealth]_vars

\* ------------------------------------- discoverOidcEndpoints on its own

\* how many discovery requests the direct calls send
MaxRequests == 2

\* the instants of the direct calls: a first one, and those that make a cache entry of
\* the first two just younger than the TTL and exactly as old
CacheTimes == {StartTime + d : d \in {0, 1, CACHE_TTL - 1, CACHE_TTL, CACHE_TTL + 1}}

\* the path settings of the fallback: none, all four, an empty one, two of them
DiscoveryEnvironments ==
    {BaseEnv,
     [BaseEnv EXCEPT !.OIDC_AUTHORIZATION_ENDPOINT = Val("/auth/authorize"),
                     !.OIDC_TOKEN_ENDPOINT = Val("/auth/token"),
                     !.OIDC_USERINFO_ENDPOINT = Val("/auth/userinfo"),
                     !.OIDC_END_SESSION_ENDPOINT = Val("/auth/logout")],
     [BaseEnv EXCEPT !.OIDC_TOKEN_ENDPOINT = Val(""),
                     !.OIDC_END_SESSION_ENDPOINT = Val("")],
     [BaseEnv EXCEPT !.OIDC_USERINFO_ENDPOINT = Val("/me"),
                     !.OIDC_END_SESSION_ENDPOINT = Val("/bye")]}

\* what the discovery URL answers: a network error, or a status with a body that is the
\* discovery document, the document {}, the JSON null, no JSON, or empty
NoResponse == [error |-> FALSE, statusCode |-> 0, body |-> "none"]

DiscoveryResponses ==
    {[error |-> TRUE, statusCode |-> 0, body |-> "none"]}
    \cup {[error |-> FALSE, statusCode |-> c, body |-> b] :
             c \in {199, 200, 299, 300, 404, 500},
             b \in {"document", "{}", "null", "invalid-json-response", ""}}

\* httpsGet: it resolves with the parsed body of a 2xx response and rejects otherwise.
\* Resolving with null makes the caller's config.authorization_endpoint throw.
httpsGet(r) ==
    IF r.error THEN [kind |-> "rejected", doc |-> NoDoc]
    ELSE IF r.statusCode >= 200 /\ r.statusCode < 300
    THEN IF r.body = "document" THEN [kind |-> "ok", doc |-> DocFull]
         ELSE IF r.body = "{}" THEN [kind |-> "ok", doc |-> DocEmpty]
         ELSE IF r.body = "null" THEN [kind |-> "null", doc |-> NoDoc]
         ELSE [kind |-> "rejected", doc |-> NoDoc]
    ELSE [kind |-> "rejected", doc |-> NoDoc]

InitDiscovery ==
    /\ env \in DiscoveryEnvironments
    /\ now = StartTime
    /\ discoveryCache = [i \in Issuers |-> NoEntry]
    /\ pc = "idle"
    /\ req = NoRequest
    /\ res = NoRes
    /\ oidcConfig = NoConfig
    /\ stateData = JUndef
    /\ discovery = NoDiscovery
    /\ calls = <<>>
    /\ locals = NoLocals
    /\ issued = {}
    /\ probe = NoProbe

\* time passes between the calls and while a call awaits its response
TickDiscovery ==
    /\ \E t \in CacheTimes :
        /\ t > now
        /\ now' = t
    /\ UNCHANGED <<env, discoveryCache, pc, req, res, oidcConfig, stateData, discovery,
                   calls, locals, issued, probe>>

\* discoverOidcEndpoints(issuer) is called: it returns the cached endpoints, or sends the
\* discovery request and awaits it
DiscoverCall ==
    /\ pc = "idle"
    /\ \E issuer \in Issuers :
        LET call == [fn |-> "discoverOidcEndpoints", issuer |-> issuer, calledAt |-> now,
                     cached |-> discoveryCache[issuer], requestsBefore |-> Len(calls),
                     response |-> NoResponse, returned |-> FALSE,
                     result |-> NoEndpoints]
        IN  IF CacheHit(discoveryCache, issuer, now)
            THEN /\ probe' = [call EXCEPT !.returned = TRUE,
                                          !.result = discoveryCache[issuer].endpoints]
                 /\ UNCHANGED <<pc, calls>>
            ELSE /\ Len(calls) < MaxRequests
                 /\ probe' = call
                 /\ calls' = Append(calls, "GET openid-configuration")
                 /\ pc' = "discovery"
    /\ UNCHANGED <<env, now, discoveryCache, req, res, oidcConfig, stateData, discovery,
                   locals, issued>>

\* the discovery request is answered and discoverOidcEndpoints returns
DiscoverResponse ==
    /\ pc = "discovery"
    /\ \E r \in DiscoveryResponses :
        /\ discoveryCache' = CacheAfter(discoveryCache, httpsGet(r), probe.issuer, now)
        /\ probe' = [probe EXCEPT !.response = r, !.returned = TRUE,
                                  !.result = EndpointsFor(httpsGet(r), env, probe.issuer)]
    /\ pc' = "idle"
    /\ UNCHANGED <<env, now, req, res, oidcConfig, stateData, discovery, calls, locals,
                   issued>>

NextDiscovery ==
    \/ TickDiscovery
    \/ DiscoverCall
    \/ DiscoverResponse

SpecDiscovery == InitDiscovery /\ [][NextDiscovery]_vars

\* ------------------------------ concurrent calls of discoverOidcEndpoints

\* how many calls are in progress together
MaxCallers == 2

Callers == 1 .. MaxCallers

\* what the discovery URL answers a racing call
RaceResponses ==
    {r \in DiscoveryResponses :
        \/ r.error
        \/ r.statusCode = 200
        \/ r.statusCode = 500 /\ r.body = "document"}

\* the fallback of a racing call: the default paths, or two paths of its own
RaceEnvironments ==
    {e \in DiscoveryEnvironments : e.OIDC_TOKEN_ENDPOINT = BaseEnv.OIDC_TOKEN_ENDPOINT}

NoCall ==
    [fn |-> "none", issuer |-> Issuer, calledAt |-> 0, cached |-> NoEntry,
     requestsBefore |-> 0, response |-> NoResponse, returned |-> FALSE,
     result |-> NoEndpoints]

InitRace ==
    /\ env \in RaceEnvironments
    /\ now = StartTime
    /\ discoveryCache = [i \in Issuers |-> NoEntry]
    /\ pc = [c \in Callers |-> "idle"]
    /\ req = NoRequest
    /\ res = NoRes
    /\ oidcConfig = NoConfig
    /\ stateData = JUndef
    /\ discovery = NoDiscovery
    /\ calls = <<>>
    /\ locals = NoLocals
    /\ issued = {}
    /\ probe = [c \in Callers |-> NoCall]

\* caller c runs discoverOidcEndpoints(issuer) up to its await: the cached endpoints are
\* returned, or the discovery request is sent
RaceCall(c) ==
    /\ pc[c] = "idle"
    /\ \E issuer \in Issuers :
        LET call == [fn |-> "discoverOidcEndpoints", issuer |-> issuer, calledAt |-> now,
                     cached |-> discoveryCache[issuer], requestsBefore |-> Len(calls),
                     response |-> NoResponse, returned |-> FALSE,
                     result |-> NoEndpoints]
        IN  IF CacheHit(discoveryCache, issuer, now)
            THEN /\ probe' = [probe EXCEPT ![c] =
                                [call EXCEPT !.returned = TRUE,
                                             !.result = discoveryCache[issuer].endpoints]]
                 /\ pc' = [pc EXCEPT ![c] = "done"]
                 /\ UNCHANGED calls
            ELSE /\ probe' = [probe EXCEPT ![c] = call]
                 /\ calls' = Append(calls, "GET openid-configuration")
                 /\ pc' = [pc EXCEPT ![c] = "discovery"]
    /\ UNCHANGED <<env, now, discoveryCache, req, res, oidcConfig, stateData, discovery,
                   locals, issued>>

\* the request of caller c is answered and its call runs from the await to its return
RaceResponse(c) ==
    /\ pc[c] = "discovery"
    /\ \E r \in RaceResponses :
        /\ discoveryCache' = CacheAfter(discoveryCache, httpsGet(r), probe[c].issuer, now)
        /\ probe' = [probe EXCEPT ![c] =
                        [probe[c] EXCEPT
                            !.response = r, !.returned = TRUE,
                            !.result = EndpointsFor(httpsGet(r), env, probe[c].issuer)]]
    /\ pc' = [pc EXCEPT ![c] = "done"]
    /\ UNCHANGED <<env, now, req, res, oidcConfig, stateData, discovery, calls, locals,
                   issued>>

NextRace ==
    \/ TickDiscovery
    \/ \E c \in Callers : RaceCall(c)
    \/ \E c \in Callers : RaceResponse(c)

SpecRace == InitRace /\ [][NextRace]_vars

\* ------------------------------------ the user id of two e-mail addresses

\* the longest local part of the addresses
MaxLocalLen == 3

\* addresses local@domain, of the letter a, the dot and the underscore
EmailLocals == SeqsUpTo({97, 46, 95}, MaxLocalLen) \ {<<>>}

\* "x.y", "x_y"
EmailDomains == {<<120, 46, 121>>, <<120, 95, 121>>}

EmailAddresses == {l \o <<64>> \o d : l \in EmailLocals, d \in EmailDomains}

InitUserId ==
    /\ env = BaseEnv
    /\ now = StartTime
    /\ discoveryCache = [i \in Issuers |-> NoEntry]
    /\ pc = "idle"
    /\ req = NoRequest
    /\ res = NoRes
    /\ oidcConfig = NoConfig
    /\ stateData = JUndef
    /\ discovery = NoDiscovery
    /\ calls = <<>>
    /\ locals = NoLocals
    /\ issued = {}
    /\ \E a \in EmailAddresses, b \in EmailAddresses :
         probe = [fn |-> "none", emails |-> <<a, b>>, ids |-> <<<<>>, <<>>>>]

\* the callback handler derives the user id of each of the two users
ApimUserIdCall ==
    /\ probe.fn = "none"
    /\ probe' = [probe EXCEPT !.fn = "apimUserId",
                              !.ids = <<ApimUserId(probe.emails[1]),
                                        ApimUserId(probe.emails[2])>>]
    /\ UNCHANGED <<env, now, discoveryCache, pc, req, res, oidcConfig, stateData,
                   discovery, calls, locals, issued>>

NextUserId == ApimUserIdCall

SpecUserId == InitUserId /\ [][NextUserId]_vars

\* ------------------------- getOidcConfig and validateOidcConfig on their own

\* a required setting: unset, empty, or a value
SettingValues(v) == {Unset, Val(""), Val(v)}

ConfigEnvironments ==
    {[BaseEnv EXCEPT !.OIDC_ISSUER = i, !.OIDC_CLIENT_ID = c, !.OIDC_CLIENT_SECRET = s,
                     !.OIDC_REDIRECT_URI = r] :
        i \in SettingValues(Issuer), c \in SettingValues("client"),
        s \in SettingValues("secret"), r \in SettingValues("https://f.example/cb")}

InitConfig ==
    /\ env \in ConfigEnvironments
    /\ now = StartTime
    /\ discoveryCache = [i \in Issuers |-> NoEntry]
    /\ pc = "idle"
    /\ req = NoRequest
    /\ res = NoRes
    /\ oidcConfig = NoConfig
    /\ stateData = JUndef
    /\ discovery = NoDiscovery
    /\ calls = <<>>
    /\ locals = NoLocals
    /\ issued = {}
    /\ probe = NoProbe

\* getOidcConfig(): the four values, or the Error it throws
GetOidcConfigCall ==
    /\ probe.fn = "none"
    /\ LET config == getOidcConfig(env) IN
       probe' = [fn |-> "getOidcConfig", threw |-> ~config.ok,
                 message |-> IF config.ok THEN ""
                             ELSE "Missing required OIDC configuration. Please set "
                                  \o "OIDC_ISSUER, OIDC_CLIENT_ID, OIDC_CLIENT_SECRET, "
                                  \o "and OIDC_REDIRECT_URI",
                 config |-> config, valid |-> FALSE]
    /\ UNCHANGED <<env, now, discoveryCache, pc, req, res, oidcConfig, stateData,
                   discovery, calls, locals, issued>>

\* validateOidcConfig(): true or false
ValidateOidcConfigCall ==
    /\ probe.fn = "none"
    /\ probe' = [fn |-> "validateOidcConfig", threw |-> FALSE, message |-> "",
                 config |-> [ok |-> FALSE, issuer |-> "", clientId |-> "",
                             clientSecret |-> "", redirectUri |-> ""],
                 valid |-> validateOidcConfig(env)]
    /\ UNCHANGED <<env, now, discoveryCache, pc, req, res, oidcConfig, stateData,
                   discovery, calls, locals, issued>>

NextConfig ==
    \/ GetOidcConfigCall
    \/ ValidateOidcConfigCall

SpecConfig == InitConfig /\ [][NextConfig]_vars

\* ============================================================ properties

\* -- what the properties say of a request, written without the handlers' operators

KeyConfigured == env.APIM_VALIDATION_KEY = Str(ValidationKeyText)

CanonicalOps == {"SignIn", "SignUp", "ChangePassword", "ChangeProfile", "CloseAccount",
                 "SignOut"}

\* the field the gateway signs with the salt for an operation
SignedField(operation, returnUrl, userId) ==
    IF operation \in {"SignIn", "SignUp"} THEN returnUrl ELSE userId

\* q carries the gateway's signature for its own operation, salt and signed field
ProperlySigned(q) ==
    /\ KeyConfigured
    /\ q.operation.set
    /\ q.operation.val \in CanonicalOps
    /\ q.sig = SignedBy(GatewayKeyBytes, q.salt,
                        SignedField(q.operation.val, q.returnUrl, q.userId))

\* the four settings an OIDC configuration cannot be loaded without
ConfigLoadable ==
    \A v \in {env.OIDC_ISSUER, env.OIDC_CLIENT_ID, env.OIDC_CLIENT_SECRET,
              env.OIDC_REDIRECT_URI} : v.set /\ v.val # ""

DelegationAnswered == pc = "done" /\ req.handler = "delegation"

\* the authorization endpoint this invocation resolved: from the discovery document, from
\* the cache, or the issuer followed by the configured or the default path
ResolvedAuthorizationEndpoint ==
    IF discovery.kind = "ok" THEN discovery.doc.authorization_endpoint
    ELSE IF discovery.kind = "cache"
    THEN discoveryCache[env.OIDC_ISSUER.val].endpoints.authorization_endpoint
    ELSE IF env.OIDC_AUTHORIZATION_ENDPOINT.set /\ env.OIDC_AUTHORIZATION_ENDPOINT.val # ""
    THEN Val(env.OIDC_ISSUER.val \o env.OIDC_AUTHORIZATION_ENDPOINT.val)
    ELSE Val(env.OIDC_ISSUER.val \o "/oauth2/authorize")

\* v is the JSON value of the optional request parameter p
SameField(v, p) == IF p.present THEN v = JStr(p.text) ELSE v = JUndef

\* C2: a delegation request whose signature validation fails (no validation key, no
\* signature, an operation outside the canonicalization table, a signature that does not
\* match) is answered 401 {error: 'Invalid signature'}, never 302, and the handler
\* neither loads the OIDC configuration nor calls discovery for it.
C2_InvalidSignatureIs401 ==
    /\ (DelegationAnswered /\ ~ProperlySigned(req))
         => /\ res = ErrorResponse(401, "Invalid signature")
            /\ res.status # 302
            /\ calls = <<>>
            /\ discovery = NoDiscovery
            /\ oidcConfig = NoConfig
    /\ pc = "delegation:discovery" => ProperlySigned(req)

\* a request with a signature that does not match was answered 401
C2_Witness ==
    /\ DelegationAnswered
    /\ KeyConfigured
    /\ req.operation = Val("SignIn")
    /\ req.sig = SignedBy(GatewayKeyBytes, req.salt, req.userId)
    /\ res.status = 401

\* C3: a SignIn request with a valid signature and a loadable OIDC configuration is
\* answered 302 with Location = the resolved authorization endpoint followed by
\* client_id, response_type=code, scope ('openid profile email'), redirect_uri and state,
\* the state being base64 of the record {returnUrl, salt, userId, timestamp} of the
\* request and the current time.
C3_SignInRedirects ==
    (/\ DelegationAnswered
     /\ req.operation = Val("SignIn")
     /\ ProperlySigned(req)
     /\ ConfigLoadable)
    => /\ res.status = 302
       /\ res.location.set
       /\ res.location.url = IF ResolvedAuthorizationEndpoint.set
                             THEN ResolvedAuthorizationEndpoint.val
                             ELSE "undefined"
       /\ Len(res.location.query) = 5
       /\ res.location.query[1] = <<"client_id", env.OIDC_CLIENT_ID.val>>
       /\ res.location.query[2] = <<"response_type", "code">>
       /\ res.location.query[3] = <<"scope", "openid profile email">>
       /\ res.location.query[4] = <<"redirect_uri", env.OIDC_REDIRECT_URI.val>>
       /\ res.location.query[5][1] = "state"
       /\ LET wire == res.location.query[5][2]
              json == Utf8Decode(Base64Decode(wire))
              record == JsonParse(json)
          IN  /\ \A i \in 1..Len(wire) : B64Val(wire[i]) >= 0 \/ wire[i] = 61
              /\ record.ok
              /\ record.val.t = "object"
              /\ SameField(Member(record.val, KeyReturnUrl), req.returnUrl)
              /\ SameField(Member(record.val, KeySalt), req.salt)
              /\ SameField(Member(record.val, KeyUserId), req.userId)
              /\ Member(record.val, KeyTimestamp) = JNum(now)

\* a SignIn was redirected to an endpoint taken from a discovery document
C3_Witness ==
    /\ DelegationAnswered
    /\ req.operation = Val("SignIn")
    /\ ProperlySigned(req)
    /\ discovery.kind = "ok"
    /\ res.location.url = Issuer \o "/authorize"
    /\ req.userId.present
    /\ res.status = 302

\* C4: a SignOut request with a valid signature is answered 302: to the end-session
\* endpoint with post_logout_redirect_uri and the encoded state when the resolved
\* configuration has one, to the portal return URL otherwise.
C4_SignOutRedirects ==
    (/\ DelegationAnswered
     /\ req.operation = Val("SignOut")
     /\ ProperlySigned(req))
    => /\ res.status = 302
       /\ res.location.set

\* a signed SignOut, with an end-session endpoint configured, was answered 400
C4_Witness ==
    /\ DelegationAnswered
    /\ req.operation = Val("SignOut")
    /\ ProperlySigned(req)
    /\ req.userId.present
    /\ ConfigLoadable
    /\ env.OIDC_END_SESSION_ENDPOINT.set
    /\ res = ErrorResponse(400, "Unsupported operation")

\* C5: a SignOut request with a valid signature is never answered with an error when the
\* OIDC configuration cannot be obtained: it is answered 302 to the portal return URL.
C5_SignOutConfigFailureRedirects ==
    (/\ DelegationAnswered
     /\ req.operation = Val("SignOut")
     /\ ProperlySigned(req)
     /\ ~ConfigLoadable)
    => /\ res.status < 400
       /\ res.status = 302
       /\ res.location.set
       /\ res.location.url = ToStr(env.APIM_PORTAL_URL)

\* a signed SignOut, with no OIDC issuer configured, was answered 400
C5_Witness ==
    /\ DelegationAnswered
    /\ req.operation = Val("SignOut")
    /\ ProperlySigned(req)
    /\ ~env.OIDC_ISSUER.set
    /\ res = ErrorResponse(400, "Unsupported operation")
    /\ calls = <<>>

\* C6: a SignIn request with a valid signature, when the OIDC configuration cannot be
\* loaded, is answered 500 {error: 'Server configuration error'}; there is no redirect
\* and no state blob.
C6_SignInConfigFailureIs500 ==
    (/\ DelegationAnswered
     /\ req.operation = Val("SignIn")
     /\ ProperlySigned(req)
     /\ ~ConfigLoadable)
    => /\ res = ErrorResponse(500, "Server configuration error")
       /\ ~res.location.set
       /\ stateData = JUndef
       /\ issued = {}

\* a SignIn met a configuration without its client secret
C6_Witness ==
    /\ DelegationAnswered
    /\ req.operation = Val("SignIn")
    /\ ProperlySigned(req)
    /\ env.OIDC_CLIENT_SECRET = Val("")
    /\ res.status = 500

\* C7: a request with a valid signature for ChangePassword, ChangeProfile or CloseAccount
\* is answered 400 {error: 'Unsupported operation'}, not the 401 of a signature failure,
\* and is not redirected.
C7_UnsupportedOperationIs400 ==
    (/\ DelegationAnswered
     /\ ProperlySigned(req)
     /\ req.operation.val \in {"ChangePassword", "ChangeProfile", "CloseAccount"})
    => /\ res = ErrorResponse(400, "Unsupported operation")
       /\ res.status # 401
       /\ ~res.location.set

\* a signed CloseAccount was answered
C7_Witness ==
    /\ DelegationAnswered
    /\ ProperlySigned(req)
    /\ req.operation = Val("CloseAccount")
    /\ req.userId.present
    /\ res.status = 400

\* the callback invocation went past its state validation
CallbackProceeded ==
    /\ req.handler = "auth-callback"
    /\ calls # <<>>

\* C8: the callback handler goes past state validation (to the configuration load, the
\* token exchange, provisioning) only for a state the delegation handler issued for a
\* request whose signature it validated.
C8_OnlyIssuedStatesProceed ==
    CallbackProceeded => \E i \in issued : req.state = Str(i.wire)

\* a callback with a state made by its sender, when no state was ever issued, got to the
\* token request
C8_Witness ==
    /\ req.handler = "auth-callback"
    /\ issued = {}
    /\ req.state = Str(EncodeState(ForgedStateData(now, 0, AbsoluteReturnUrlText)))
    /\ pc = "callback:token"
    /\ calls = <<"getOidcConfiguration", "GET openid-configuration", "POST token">>

\* C9: for a decoded state with a timestamp, the callback handler answers 400
\* {error: 'State parameter expired'} when now - timestamp > 600000, without a
\* configuration load, an outbound call or a redirect, and lets the request pass the
\* freshness check otherwise, a difference of exactly 600000 included.
C9_Freshness ==
    [][(/\ pc = "idle"
        /\ req'.handler = "auth-callback"
        /\ req'.code.present /\ req'.code.text # <<>>
        /\ req'.state.present /\ req'.state.text # <<>>
        /\ stateData'.t = "object"
        /\ Member(stateData', KeyTimestamp).t = "number")
       => LET age == now - Member(stateData', KeyTimestamp).n IN
          /\ age > 600000
               => /\ res' = ErrorResponse(400, "State parameter expired")
                  /\ pc' = "done"
                  /\ calls' = <<>>
                  /\ discovery' = NoDiscovery
                  /\ ~res'.location.set
          /\ age <= 600000
               => /\ res'.body # [error |-> "State parameter expired"]
                  /\ calls' # <<>>
                  /\ calls'[1] = "getOidcConfiguration"]_vars

\* a state of exactly the maximal age went on to the token exchange
C9_Witness ==
    /\ req.handler = "auth-callback"
    /\ stateData.t = "object"
    /\ Member(stateData, KeyTimestamp) = JNum(now - 600000)
    /\ pc = "callback:token"
    /\ "POST token" \in {calls[i] : i \in 1..Len(calls)}

\* -- the callback handler's answers

CallbackAnswered == pc = "done" /\ req.handler = "auth-callback"

\* q lacks its code or its state: the parameter is not there, or is empty
MissingParameter(q) ==
    \/ ~q.code.present \/ q.code.text = <<>>
    \/ ~q.state.present \/ q.state.text = <<>>

\* C11: a callback request without its code or without its state (absent or empty) is
\* answered 400 {error: 'Missing code or state parameter'} at once: no state was decoded,
\* no configuration loaded, no call made; and that answer is given to no other request.
C11_MissingParameterIs400 ==
    /\ (req.handler = "auth-callback" /\ MissingParameter(req))
         => /\ pc = "done"
            /\ res = ErrorResponse(400, "Missing code or state parameter")
            /\ stateData = JUndef
            /\ oidcConfig = NoConfig
            /\ discovery = NoDiscovery
            /\ calls = <<>>
            /\ locals = NoLocals
    /\ (req.handler = "auth-callback"
         /\ res.body = [error |-> "Missing code or state parameter"])
         => MissingParameter(req)

\* a callback with a code and an empty state was answered 400
C11_Witness ==
    /\ CallbackAnswered
    /\ req.code = Str(<<99>>)
    /\ req.state = Str(<<>>)
    /\ res.status = 400
    /\ calls = <<>>

\* the state parameter decodes (base64, UTF-8, JSON) to a record
DecodesToRecord(state) ==
    LET decoded == DecodeState(state.text)
    IN  decoded.ok /\ decoded.val.t = "object"

\* C12: a callback request with a code and a state that does not decode to a state
\* record is answered 400 {error: 'Invalid state parameter'}, which is neither the answer
\* to a missing parameter nor the one to an expired state, and no call is made for it.
C12_UndecodableStateIs400 ==
    (/\ req.handler = "auth-callback"
     /\ ~MissingParameter(req)
     /\ ~DecodesToRecord(req.state))
    => /\ pc = "done"
       /\ res = ErrorResponse(400, "Invalid state parameter")
       /\ res.body \notin {[error |-> "Missing code or state parameter"],
                           [error |-> "State parameter expired"]}
       /\ calls = <<>>

\* a callback whose state is the base64 of the JSON text null was answered 500
C12_Witness ==
    /\ CallbackAnswered
    /\ req.code = Str(<<99>>)
    /\ req.state = Str(EncodeState(JNull))
    /\ res = AuthenticationFailed("Cannot read properties of null")
    /\ calls = <<>>

\* provisioning threw: the handler went through its inner catch
ProvisioningFailed == CallbackAnswered /\ locals.apimError.set

\* the returnUrl of the decoded state is one a redirect can be made to: the path the
\* gateway sent with the SignIn, or an absolute URL
ReturnUrlUsable ==
    Member(stateData, KeyReturnUrl) \in {JStr(<<47, 97>>), JStr(AbsoluteReturnUrlText)}

\* the Location query has the parameter k with value v; has no parameter k
HasParam(k, v) == \E i \in DOMAIN res.location.query : res.location.query[i] = <<k, v>>
LacksParam(k) == \A i \in DOMAIN res.location.query : res.location.query[i][1] # k

\* the Location query has k exactly when the text v is not empty, and then with v
ParamIfNotEmpty(k, v) == IF v # <<>> THEN HasParam(k, v) ELSE LacksParam(k)

\* C13: when the token exchange and the user info request succeeded and provisioning
\* failed (no gateway configuration, no bearer token, the create-or-update call or the
\* SSO-URL call failed), the callback is answered 302 to the returnUrl of its state, with
\* the user attributes that are not empty and the salt of the state as query parameters,
\* and not 500.
C13_ProvisioningFailureFallsBack ==
    (ProvisioningFailed /\ ReturnUrlUsable)
    => LET returnUrl == Member(stateData, KeyReturnUrl).s
           data == locals.userData
       IN  /\ res.status = 302
           /\ res.status # 500
           /\ res.location.set
           /\ res.location.url.ref = returnUrl
           /\ res.location.url.base \in {<<>>, PortalUrlText, DefaultPortalUrlText}
           /\ res.location.url.base = <<>> <=> returnUrl = AbsoluteReturnUrlText
           /\ ParamIfNotEmpty("userId", data.userId.text)
           /\ ParamIfNotEmpty("email", data.email.text)
           /\ ParamIfNotEmpty("firstName", data.firstName)
           /\ ParamIfNotEmpty("lastName", data.lastName)
           /\ HasParam("salt", Member(stateData, KeySalt).s)
           /\ "GET userinfo" \in {calls[i] : i \in DOMAIN calls}

\* the create-or-update call for the user of an issued state failed with a status, and
\* the callback was redirected to the returnUrl with the user's e-mail address
C13_Witness ==
    /\ ProvisioningFailed
    /\ \E i \in issued : req.state = Str(i.wire)
    /\ calls[Len(calls)] = "PUT user"
    /\ locals.apimError = Val("HTTP 500")
    /\ res.status = 302
    /\ res.location.url = [ref |-> <<47, 97>>, base |-> PortalUrlText]
    /\ HasParam("email", EmailText)

\* C14: the fallback redirect never throws: whatever the returnUrl and the salt of a
\* state that passed the decode and freshness checks (absent, relative, no URL), a
\* provisioning failure ends in the 302 fallback redirect, not in an error response.
C14_FallbackNeverThrows ==
    ProvisioningFailed
    => /\ res.status = 302
       /\ res.location.set
       /\ res.body = NoBody

\* provisioning failed for a fresh state whose returnUrl is 'http', and the callback was
\* answered 500
C14_Witness ==
    /\ ProvisioningFailed
    /\ Member(stateData, KeyReturnUrl) = JStr(HttpText)
    /\ res = AuthenticationFailed("Invalid URL")

\* C15: a token response with an error field ends the callback with 500
\* {error: 'Authentication failed', details: 'Token exchange failed: ' followed by the
\* provider's error_description}; no user info request, no provisioning call and no
\* redirect follows it.
C15_TokenErrorIs500 ==
    (/\ req.handler = "auth-callback"
     /\ locals.tokenResponse.error.set
     /\ locals.tokenResponse.error.val # "")
    => LET description == locals.tokenResponse.error_description IN
       /\ pc = "done"
       /\ res.status = 500
       /\ res.body = [error |-> "Authentication failed",
                      details |-> "Token exchange failed: "
                                  \o (IF description.set THEN description.val
                                      ELSE "undefined")]
       /\ ~res.location.set
       /\ calls[Len(calls)] = "POST token"
       /\ \A i \in DOMAIN calls :
            calls[i] \notin {"GET userinfo", "GET identity", "PUT user",
                             "POST generateSsoUrl"}
       /\ locals.userData = NoUserData
       /\ ~locals.apimError.set

\* the token endpoint answered {error: 'invalid_grant', error_description: 'bad code'}
C15_Witness ==
    /\ CallbackAnswered
    /\ locals.tokenResponse.error = Val("invalid_grant")
    /\ locals.tokenResponse.error_description = Val("bad code")
    /\ res = AuthenticationFailed("Token exchange failed: bad code")

\* the decoded state is a record that the freshness check lets pass
StatePassedChecks ==
    /\ stateData.t = "object"
    /\ LET timestamp == Member(stateData, KeyTimestamp)
       IN  timestamp.t = "number" => now - timestamp.n <= 600000

\* C16: when the OIDC configuration cannot be loaded, a callback that passed the state
\* checks is answered 500 {error: 'Server configuration error'} and the flow halts: no
\* discovery, token exchange, user info request, provisioning call or redirect follows.
C16_CallbackConfigFailureIs500 ==
    /\ (/\ req.handler = "auth-callback"
        /\ ~MissingParameter(req)
        /\ StatePassedChecks
        /\ ~ConfigLoadable)
       => /\ pc = "done"
          /\ res = ErrorResponse(500, "Server configuration error")
          /\ ~res.location.set
          /\ calls = <<"getOidcConfiguration">>
          /\ discovery = NoDiscovery
          /\ oidcConfig = NoConfig
          /\ locals = NoLocals
    /\ (req.handler = "auth-callback" /\ pc \notin {"idle", "done"}) => ConfigLoadable

\* a callback with a fresh state met a configuration without its redirect URI
C16_Witness ==
    /\ CallbackAnswered
    /\ req.code = Str(<<99>>)
    /\ Member(stateData, KeyTimestamp) = JNum(now)
    /\ StatePassedChecks
    /\ ~env.OIDC_REDIRECT_URI.set
    /\ res.status = 500

\* "https://a.developer.azure-api.net/signin-sso?token=t"
SsoUrlDeveloperText == SubSeq(SsoUrlCompleteText, 1, Len(SsoUrlCompleteText) - 14)

\* C17: when every step of the callback succeeded and the management API returned an SSO
\* URL, the answer is 302 to that URL with the management-portal domain replaced by the
\* developer-portal domain, and with the state's returnUrl (URI-encoded) appended as a
\* query parameter exactly when the URL carries no returnUrl parameter.
C17_SsoRedirect ==
    (/\ CallbackAnswered
     /\ locals.ssoResponse.present
     /\ IndexOf(locals.ssoResponse.text, SigninSsoText) # -1)
    => LET ssoUrl == locals.ssoResponse.text
           returnUrl == EncodeURIComponent(JsToString(Member(stateData, KeyReturnUrl)))
           location == res.location.url
       IN  /\ res.status = 302
           /\ res.location.set
           /\ res.location.query = <<>>
           /\ ~locals.apimError.set
           /\ ssoUrl \in {SsoUrlPortalText, SsoUrlCompleteText, <<47>> \o SigninSsoText}
           /\ ssoUrl = SsoUrlPortalText
                => location = SsoUrlDeveloperText \o AndReturnUrlEqText \o returnUrl
           /\ ssoUrl = SsoUrlCompleteText => location = SsoUrlCompleteText
           /\ ssoUrl = <<47>> \o SigninSsoText
                => location = <<47>> \o SigninSsoText \o <<63>> \o ReturnUrlEqText
                              \o returnUrl
           /\ IndexOf(location, PortalDomainText) = -1
           /\ IndexOf(location, ReturnUrlEqText) # -1

\* the management API returned an SSO URL of the management portal, without returnUrl,
\* for the user of an issued state whose returnUrl is /a
C17_Witness ==
    /\ CallbackAnswered
    /\ \E i \in issued : req.state = Str(i.wire)
    /\ locals.ssoResponse = Str(SsoUrlPortalText)
    /\ res.status = 302
    /\ res.location.url = SsoUrlDeveloperText \o AndReturnUrlEqText \o <<37, 50, 70, 97>>
    /\ calls[Len(calls)] = "POST generateSsoUrl"

\* -- discoverOidcEndpoints called directly

DiscoveryCalled == probe.fn = "discoverOidcEndpoints"

\* the discovery requests sent since the call began
RequestsOfCall == Len(calls) - probe.requestsBefore

\* C18: a discoverOidcEndpoints call made less than 3600000 ms after the successful
\* discovery that filled the cache for its issuer returns the cached endpoints and sends
\* no request; a call made 3600000 ms or more after it sends a new discovery request; an
\* entry that has reached that age is never returned.
C18_DiscoveryCache ==
    (DiscoveryCalled /\ probe.cached.has)
    => LET age == probe.calledAt - probe.cached.timestamp IN
       /\ age < 3600000
            => /\ probe.returned
               /\ probe.result = probe.cached.endpoints
               /\ RequestsOfCall = 0
               /\ pc = "idle"
       /\ age >= 3600000
            => /\ RequestsOfCall = 1
               /\ calls[Len(calls)] = "GET openid-configuration"
               /\ probe.returned => probe.response # NoResponse

\* a call made exactly 3600000 ms after the discovery that filled the cache sent a new
\* request
C18_Witness ==
    /\ DiscoveryCalled
    /\ probe.cached.has
    /\ probe.calledAt - probe.cached.timestamp = 3600000
    /\ RequestsOfCall = 1
    /\ pc = "discovery"

\* the response is one httpsGet rejects: a network error, a status outside 2xx, a body
\* that is empty or no JSON
DiscoveryFailed(r) ==
    \/ r.error
    \/ r.statusCode \notin 200..299
    \/ r.body \in {"invalid-json-response", ""}

\* the path configured under a name, or the default when it is unset or empty
PathOr(v, default) == IF v.set /\ v.val # "" THEN v.val ELSE default

\* C19: discoverOidcEndpoints never raises: every call whose request was answered has
\* returned, and when the answer was a status outside 2xx, an empty body or one that is
\* no JSON, or a network error, it returned the issuer followed by the configured paths
\* (by default /oauth2/authorize, /oauth2/token, /oauth2/userinfo), with an
\* end_session_endpoint only when a logout path is configured.
C19_DiscoveryFallback ==
    /\ (DiscoveryCalled /\ pc = "idle") => probe.returned
    /\ (DiscoveryCalled /\ probe.returned /\ probe.response # NoResponse
        /\ DiscoveryFailed(probe.response))
       => /\ probe.result.authorization_endpoint
               = Val(probe.issuer
                     \o PathOr(env.OIDC_AUTHORIZATION_ENDPOINT, "/oauth2/authorize"))
          /\ probe.result.token_endpoint
               = Val(probe.issuer \o PathOr(env.OIDC_TOKEN_ENDPOINT, "/oauth2/token"))
          /\ probe.result.userinfo_endpoint
               = Val(probe.issuer
                     \o PathOr(env.OIDC_USERINFO_ENDPOINT, "/oauth2/userinfo"))
          /\ probe.result.end_session_endpoint
               = (IF PathOr(env.OIDC_END_SESSION_ENDPOINT, "") = "" THEN Unset
                  ELSE Val(probe.issuer \o env.OIDC_END_SESSION_ENDPOINT.val))
          /\ probe.result.issuer = Val(probe.issuer)

\* the discovery URL answered 404 under a configuration without path settings, and the
\* call returned the default endpoints without a logout endpoint
C19_Witness ==
    /\ DiscoveryCalled
    /\ probe.returned
    /\ env = BaseEnv
    /\ probe.response = [error |-> FALSE, statusCode |-> 404, body |-> "document"]
    /\ probe.result.authorization_endpoint = Val(Issuer \o "/oauth2/authorize")
    /\ probe.result.end_session_endpoint = Unset

\* -- getOidcConfig and validateOidcConfig called directly

\* a required setting is there: set, and not the empty string
SettingPresent(v) == v.set /\ v.val # ""

AllSettingsPresent ==
    /\ SettingPresent(env.OIDC_ISSUER)
    /\ SettingPresent(env.OIDC_CLIENT_ID)
    /\ SettingPresent(env.OIDC_CLIENT_SECRET)
    /\ SettingPresent(env.OIDC_REDIRECT_URI)

\* C20: getOidcConfig throws 'Missing required OIDC configuration ...' exactly when one
\* of OIDC_ISSUER, OIDC_CLIENT_ID, OIDC_CLIENT_SECRET, OIDC_REDIRECT_URI is unset or
\* empty, and returns the four values otherwise; validateOidcConfig returns true exactly
\* when all four are present and false otherwise, never throws, and sends no request.
C20_ConfigValidation ==
    /\ probe.fn = "getOidcConfig"
         => /\ probe.threw <=> ~AllSettingsPresent
            /\ probe.threw
                 => probe.message = "Missing required OIDC configuration. Please set "
                                    \o "OIDC_ISSUER, OIDC_CLIENT_ID, OIDC_CLIENT_SECRET, "
                                    \o "and OIDC_REDIRECT_URI"
            /\ ~probe.threw
                 => /\ probe.config.issuer = env.OIDC_ISSUER.val
                    /\ probe.config.clientId = env.OIDC_CLIENT_ID.val
                    /\ probe.config.clientSecret = env.OIDC_CLIENT_SECRET.val
                    /\ probe.config.redirectUri = env.OIDC_REDIRECT_URI.val
            /\ calls = <<>>
    /\ probe.fn = "validateOidcConfig"
         => /\ probe.valid <=> AllSettingsPresent
            /\ ~probe.threw
            /\ calls = <<>>
            /\ pc = "idle"

\* validateOidcConfig returned false for a configuration whose only fault is an empty
\* client secret
C20_Witness ==
    /\ probe.fn = "validateOidcConfig"
    /\ ~probe.valid
    /\ env.OIDC_CLIENT_SECRET = Val("")
    /\ SettingPresent(env.OIDC_ISSUER)
    /\ SettingPresent(env.OIDC_CLIENT_ID)
    /\ SettingPresent(env.OIDC_REDIRECT_URI)

\* the calls of this invocation
Called(c) == \E i \in DOMAIN calls : calls[i] = c

\* provisioning got as far as asking for the bearer token: the user has its identifier
\* and the gateway is configured
BearerTokenWanted ==
    /\ req.handler = "auth-callback"
    /\ locals.apimUserId.present
    /\ \A v \in {env.APIM_SUBSCRIPTION_ID, env.APIM_RESOURCE_GROUP, env.APIM_SERVICE_NAME} :
          v.set /\ v.val # ""

\* C22: the bearer token of the management calls is APIM_ACCESS_TOKEN when that is set,
\* and then the managed-identity endpoint is not contacted; when it is not set the token
\* comes from the managed-identity endpoint, asked before each management call; and
\* without IDENTITY_ENDPOINT or IDENTITY_HEADER getAzureAccessToken fails, no request
\* being sent.
C22_BearerTokenChoice ==
    BearerTokenWanted
    => LET static == env.APIM_ACCESS_TOKEN.set /\ env.APIM_ACCESS_TOKEN.val # ""
           identity == /\ env.IDENTITY_ENDPOINT.set /\ env.IDENTITY_ENDPOINT.val # ""
                       /\ env.IDENTITY_HEADER.set /\ env.IDENTITY_HEADER.val # ""
       IN  /\ static
                => /\ ~Called("GET identity")
                   /\ locals.azureToken = env.APIM_ACCESS_TOKEN
                   /\ Called("PUT user")
           /\ (~static /\ identity)
                => /\ Called("GET identity")
                   /\ \A i \in DOMAIN calls :
                        calls[i] \in {"PUT user", "POST generateSsoUrl"}
                        => calls[i - 1] = "GET identity"
                   /\ locals.azureToken \in {Unset, Val("identity-token")}
           /\ (~static /\ ~identity)
                => /\ pc = "done"
                   /\ locals.apimError = Val("Managed Identity not available")
                   /\ ~locals.azureToken.set
                   /\ ~Called("GET identity")
                   /\ ~Called("PUT user")

\* with both the manual token and the managed identity configured, the user was put with
\* the manual token and the identity endpoint was not asked
C22_Witness ==
    /\ BearerTokenWanted
    /\ env.APIM_ACCESS_TOKEN = Val("manual-token")
    /\ env.IDENTITY_ENDPOINT.set /\ env.IDENTITY_HEADER.set
    /\ locals.azureToken = Val("manual-token")
    /\ calls[Len(calls)] = "POST generateSsoUrl"
    /\ ~Called("GET identity")

\* -- the health handler

\* the number the decimal digits t[a..b] write
RECURSIVE DigitsValue(_, _, _)
DigitsValue(t, a, b) == IF a > b THEN 0 ELSE DigitsValue(t, a, b - 1) * 10 + (t[b] - 48)

\* t has the shape dddd-dd-ddTdd:dd:dd.dddZ
IsoShape(t) ==
    /\ Len(t) = 24
    /\ t[5] = 45 /\ t[8] = 45 /\ t[11] = 84 /\ t[14] = 58 /\ t[17] = 58 /\ t[20] = 46
    /\ t[24] = 90
    /\ \A i \in (1..23) \ {5, 8, 11, 14, 17, 20} : t[i] \in 48..57

\* Date.parse of a text of that shape: the milliseconds since the epoch of the instant
\* it names, by the count of days of the proleptic Gregorian calendar
DateParse(t) ==
    LET year == DigitsValue(t, 1, 4)
        month == DigitsValue(t, 6, 7)
        day == DigitsValue(t, 9, 10)
        y == IF month <= 2 THEN year - 1 ELSE year
        era == y \div 400
        yoe == y - era * 400
        doy == (153 * (IF month > 2 THEN month - 3 ELSE month + 9) + 2) \div 5 + day - 1
        doe == yoe * 365 + yoe \div 4 - yoe \div 100 + doy
        days == era * 146097 + doe - 719468
    IN  days * 86400000 + DigitsValue(t, 12, 13) * 3600000
        + DigitsValue(t, 15, 16) * 60000 + DigitsValue(t, 18, 19) * 1000
        + DigitsValue(t, 21, 23)

\* the fields of a text of that shape are those of a date and a time of day
ValidDate(t) ==
    /\ DigitsValue(t, 6, 7) \in 1..12
    /\ DigitsValue(t, 9, 10) \in 1..31
    /\ DigitsValue(t, 12, 13) \in 0..23
    /\ DigitsValue(t, 15, 16) \in 0..59
    /\ DigitsValue(t, 18, 19) \in 0..59

\* C23: the health handler answers every request, whatever its method and parameters,
\* with 200 and the body {status: 'healthy', timestamp: t}, t being the current time as
\* an ISO-8601 string: it has the shape YYYY-MM-DDTHH:mm:ss.sssZ, names a valid date,
\* parses to the current time and is its own re-serialization.
C23_HealthIs200 ==
    req.handler = "health"
    => /\ pc = "done"
       /\ res.status = 200
       /\ DOMAIN res.body = {"status", "timestamp"}
       /\ res.body.status = "healthy"
       /\ IsoShape(res.body.timestamp)
       /\ ValidDate(res.body.timestamp)
       /\ DateParse(res.body.timestamp) = now
       /\ ToISOString(DateParse(res.body.timestamp)) = res.body.timestamp
       /\ ~res.location.set

\* a POST with parameters, in the last millisecond of the first day, was answered with
\* 1970-01-01T23:59:59.999Z
C23_Witness ==
    /\ req = [handler |-> "health", method |-> "POST", query |-> "verbose=1"]
    /\ now = 86399999
    /\ res.status = 200
    /\ res.body.timestamp
         = <<49, 57, 55, 48, 45, 48, 49, 45, 48, 49, 84, 50, 51, 58, 53, 57, 58, 53, 57,
             46, 57, 57, 57, 90>>

\* the outbound operations of a callback, in their order
CallbackSteps ==
    <<"getOidcConfiguration", "POST token", "GET userinfo", "PUT user",
      "POST generateSsoUrl">>

\* those of them this invocation has started, in the order it started them
StepsStarted ==
    SelectSeq(calls, LAMBDA c : \E i \in DOMAIN CallbackSteps : CallbackSteps[i] = c)

\* what the handler is waiting for at each of its awaits
AwaitedCall ==
    [p \in {"callback:discovery", "callback:token", "callback:userinfo",
             "callback:identity:put", "callback:put", "callback:identity:sso",
             "callback:sso"} |->
        CASE p = "callback:discovery" -> "GET openid-configuration"
          [] p = "callback:token" -> "POST token"
          [] p = "callback:userinfo" -> "GET userinfo"
          [] p = "callback:put" -> "PUT user"
          [] p = "callback:sso" -> "POST generateSsoUrl"
          [] OTHER -> "GET identity"]

\* the steps started so far are the first ones of the fixed order, each once; the call
\* awaited is the one started last, so that no other is in flight; and what a step needs
\* of the one before it is there
StepsInOrder ==
    req.handler = "auth-callback"
    => /\ StepsStarted = SubSeq(CallbackSteps, 1, Len(StepsStarted))
       /\ pc \in DOMAIN AwaitedCall => calls[Len(calls)] = AwaitedCall[pc]
       /\ pc \notin DOMAIN AwaitedCall => pc = "done"
       /\ Called("POST token") => oidcConfig.ok /\ oidcConfig.endpoints.token_endpoint.set
       /\ Called("GET userinfo")
            => ~(locals.tokenResponse.error.set /\ locals.tokenResponse.error.val # "")
       /\ Called("PUT user") => locals.userData.email.present
       /\ Called("POST generateSsoUrl") => locals.azureToken.set

\* a step is started at the moment the one before it completes, and only if it did
\* without an error
StepStartsAfterSuccess ==
    \A i \in 2..Len(CallbackSteps) :
        (Called(CallbackSteps[i])' /\ ~Called(CallbackSteps[i]))
        => /\ Called(CallbackSteps[i - 1])'
           /\ pc \in {"idle"} \cup DOMAIN AwaitedCall
           /\ pc # "idle" => /\ Called(CallbackSteps[i - 1])
                             /\ calls[Len(calls)] \in {CallbackSteps[i - 1],
                                                       "GET openid-configuration",
                                                       "GET identity"}
           /\ ~locals'.apimError.set
           /\ res' = NoRes

C21_ResponseStatuses ==
    /\ DelegationAnswered => res.status \in {302, 400, 401, 500}
    /\ CallbackAnswered => res.status \in {302, 400, 500}
    /\ pc = "done"
         => IF res.status = 302
            THEN res.location.set /\ res.body = NoBody
            ELSE /\ res.body # NoBody
                 /\ "error" \in DOMAIN res.body
                 /\ res.body.error # ""
                 /\ ~res.location.set

\* a callback ended in the outer catch, with 500 and an error and details in its body
C21_Witness ==
    /\ CallbackAnswered
    /\ res.status = 500
    /\ res.body.error = "Authentication failed"
    /\ "details" \in DOMAIN res.body
    /\ "GET userinfo" \in {calls[i] : i \in DOMAIN calls}

\* what the cache holds was discovered, and a call that finds no entry sends a request
OnlyDiscoveriesCached ==
    /\ \A i \in Issuers :
         discoveryCache[i].has => discoveryCache[i].endpoints \in {DocFull, DocEmpty}
    /\ (DiscoveryCalled /\ ~probe.cached.has)
         => /\ RequestsOfCall = 1
            /\ probe.returned => probe.response # NoResponse

\* a discovery request that fails leaves the cache as it was
FailureKeepsCache ==
    (pc = "discovery" /\ pc' = "idle" /\ DiscoveryFailed(probe'.response))
    => discoveryCache' = discoveryCache

\* C26: a failed discovery leaves the discovery cache unchanged, the fallback endpoints
\* are never stored, and so the next discoverOidcEndpoints call for the issuer, finding
\* no fresh entry, sends a discovery request again.
C26_FallbackNotCached ==
    []OnlyDiscoveriesCached /\ [][FailureKeepsCache]_vars

\* after a first discovery request that failed, a second call found no entry and sent
\* the request again
C26_Witness ==
    /\ DiscoveryCalled
    /\ probe.requestsBefore = 1
    /\ ~probe.cached.has
    /\ pc = "discovery"
    /\ calls = <<"GET openid-configuration", "GET openid-configuration">>

\* caller c has started and found no entry younger than the TTL
Missed(c) ==
    /\ pc[c] # "idle"
    /\ ~(probe[c].cached.has /\ probe[c].calledAt - probe[c].cached.timestamp < CACHE_TTL)

\* the response of a discovery request is a 2xx one whose body is a JSON object
Discovered(r) ==
    /\ ~r.error
    /\ r.statusCode >= 200 /\ r.statusCode < 300
    /\ r.body \in {"document", "{}"}

DocumentOf(r) == IF r.body = "document" THEN DocFull ELSE DocEmpty

\* the calls have sent nothing but discovery requests, one for each call that missed,
\* and a call that returned has the endpoints of its own response or the fallback
RaceEffects ==
    /\ calls \in Seq({"GET openid-configuration"})
    /\ Len(calls) = Cardinality({c \in Callers : Missed(c)})
    /\ req = NoRequest /\ res = NoRes /\ locals = NoLocals
    /\ \A c \in Callers :
         (pc[c] = "done" /\ Missed(c))
         => /\ probe[c].returned
            /\ probe[c].result = IF Discovered(probe[c].response)
                                  THEN DocumentOf(probe[c].response)
                                  ELSE FallbackEndpoints(env, probe[c].issuer)

\* the cache changes only when a call completes a successful discovery, and then the
\* entry is that call's whole result
LastWriterWins ==
    /\ \A c \in Callers :
         (pc[c] = "discovery" /\ pc'[c] = "done" /\ Discovered(probe'[c].response))
         => discoveryCache'[probe[c].issuer] =
              [has |-> TRUE, endpoints |-> probe'[c].result, timestamp |-> now]
    /\ discoveryCache' # discoveryCache
         => \E c \in Callers :
              /\ pc[c] = "discovery" /\ pc'[c] = "done"
              /\ Discovered(probe'[c].response)

GatewaySafeChars == (48 .. 57) \cup (65 .. 90) \cup (97 .. 122) \cup {95}

\* C27: the user id the callback handler derives from the e-mail address and passes to
\* the create-or-update and generateSsoUrl calls has only alphanumeric characters and
\* the substitution character.
C27_UserIdGatewaySafe ==
    (Called("PUT user") /\ locals.apimUserId.present)
    => \A i \in DOMAIN locals.apimUserId.text :
         locals.apimUserId.text[i] \in GatewaySafeChars

\* the user of the address u+1@x.y was created under the id u+1_x_y and the SSO URL was
\* asked for that id
C27_Witness ==
    /\ Called("PUT user")
    /\ Called("POST generateSsoUrl")
    /\ locals.userData.email = Str(PlusEmailText)
    /\ locals.apimUserId = Str(<<117, 43, 49, 95, 120, 95, 121>>)

\* C28: state replay is prevented: a callback invocation that goes on past the state
\* checks carries a state with which no earlier invocation did.
C28_StateAcceptedOnce ==
    (pc # "idle" /\ req.handler = "auth-callback" /\ calls # <<>>)
    => req.state \notin probe.states

\* a state the delegation handler issued was accepted by one callback invocation, and a
\* later invocation carrying the same state ran to the redirect
C28_Witness ==
    /\ pc = "done"
    /\ req.handler = "auth-callback"
    /\ req.state \in probe.states
    /\ \E i \in issued : req.state = Str(i.wire)
    /\ Called("POST token")
    /\ res.status = 302

\* C29: a callback request with a code and a state goes on to the configuration load
\* only when the decoded state is a record whose timestamp is a number with
\* 0 <= now - timestamp <= 600000; any other state is answered 400 with no
\* configuration load and no outbound call.
C29_OnlyFreshRecordsProceed ==
    [][(/\ pc = "idle"
        /\ req'.handler = "auth-callback"
        /\ req'.code.present /\ req'.code.text # <<>>
        /\ req'.state.present /\ req'.state.text # <<>>)
       => IF /\ stateData'.t = "object"
             /\ Member(stateData', KeyTimestamp).t = "number"
             /\ now - Member(stateData', KeyTimestamp).n >= 0
             /\ now - Member(stateData', KeyTimestamp).n <= 600000
          THEN calls' # <<>>
          ELSE calls' = <<>> /\ res'.status = 400]_vars

\* the state e30=, the record {} without a timestamp, went on to the token exchange
C29_Witness ==
    /\ req.handler = "auth-callback"
    /\ req.state = Str(EncodeState(JObj(<<>>)))
    /\ stateData = JObj(<<>>)
    /\ pc = "callback:token"
    /\ calls = <<"getOidcConfiguration", "GET openid-configuration", "POST token">>

\* C32: the callback handler sends the userinfo request, and answers with a redirect,
\* only when the token response had an access token.
C32_UserInfoOnlyWithToken ==
    (req.handler = "auth-callback" /\ (Called("GET userinfo") \/ res.status = 302))
    => /\ locals.tokenResponse.access_token.set
       /\ locals.tokenResponse.access_token.val # ""

\* a token response with neither an error nor an access_token was followed by the
\* userinfo request and the invocation ended in a redirect
C32_Witness ==
    /\ pc = "done"
    /\ req.handler = "auth-callback"
    /\ Len(calls) >= 4
    /\ calls[3] = "POST token"
    /\ calls[4] = "GET userinfo"
    /\ ~locals.tokenResponse.error.set
    /\ ~locals.tokenResponse.access_token.set
    /\ res.status = 302

\* an endpoint set has the three endpoints the handlers call
HasRequiredEndpoints(e) ==
    /\ e.authorization_endpoint.set
    /\ e.token_endpoint.set
    /\ e.userinfo_endpoint.set

\* C33: every entry of the discovery cache, and every endpoint set returned from a cache
\* hit, has an authorization_endpoint, a token_endpoint and a userinfo_endpoint.
C33_CachedEndpointsDefined ==
    /\ \A i \in Issuers :
         discoveryCache[i].has => HasRequiredEndpoints(discoveryCache[i].endpoints)
    /\ (DiscoveryCalled /\ probe.returned /\ RequestsOfCall = 0)
         => HasRequiredEndpoints(probe.result)

\* after a 200 response with the document {}, a later call was served the cached entry
\* without endpoints and sent no request
C33_Witness ==
    /\ DiscoveryCalled
    /\ probe.returned
    /\ probe.cached.has
    /\ probe.calledAt > probe.cached.timestamp
    /\ RequestsOfCall = 0
    /\ probe.result = probe.cached.endpoints
    /\ ~probe.result.token_endpoint.set

\* the callback was answered with the redirect made of the generateSsoUrl response
SsoRedirected ==
    /\ CallbackAnswered
    /\ res.status = 302
    /\ ~locals.apimError.set
    /\ calls # <<>>
    /\ calls[Len(calls)] = "POST generateSsoUrl"

\* C34: the callback handler answers 302 to a signin-sso URL only when generateSsoUrl
\* returned a non-empty value; a response without a value gives no signin-sso redirect
\* with an absent token.
C34_SsoRedirectNeedsValue ==
    SsoRedirected
    => /\ locals.ssoResponse.present
       /\ locals.ssoResponse.text # <<>>

\* generateSsoUrl answered with an object without value, and the Location is a
\* signin-sso URL with token=undefined
C34_Witness ==
    /\ SsoRedirected
    /\ locals.ssoResponse = Absent
    /\ res.location.set
    /\ IndexOf(res.location.url,
               SigninSsoText \o <<63, 116, 111, 107, 101, 110, 61>> \o UndefinedText
               \o <<38>>) # -1

\* context.res is set once in an invocation, by the step in which the handler returns
ResponseSetOnce ==
    res' # res
    => \/ res = NoRes /\ pc # "done" /\ pc' = "done"
       \/ pc = "done" /\ pc' = "idle" /\ res' = NoRes

\* C35: when every outbound call completes, every delegation or callback invocation
\* that has begun comes to its end with a response, set once, and the invocation is
\* then over; no invocation ends without a response.
C35_InvocationsTerminate ==
    /\ [](pc # "idle" => <>(pc = "done" /\ res.status \in {302, 400, 401, 500}))
    /\ [](pc = "done" => <>(pc = "idle"))
    /\ [][ResponseSetOnce]_vars

\* a callback that awaited the configuration, the token, the user info, the identity
\* twice, the PUT and generateSsoUrl has ended with its redirect
C35_Witness ==
    /\ pc = "done"
    /\ req.handler = "auth-callback"
    /\ Len(calls) = 8
    /\ calls[Len(calls)] = "POST generateSsoUrl"
    /\ res.status = 302

\* -- two callbacks whose states differ in userId

\* C36: two callback runs whose states differ only in userId, and whose requests are
\* answered alike, make the same calls for the same gateway user and give the same
\* response: the userId of the state has no part in what is provisioned.
C36_StateUserIdIgnored ==
    (/\ probe.fn = "twin"
     /\ Len(probe.runs) = 2
     /\ probe.runs[1].answers = probe.runs[2].answers)
    => probe.runs[1].effects = probe.runs[2].effects

\* a run with the state userId u and one with the state userId v were both answered a
\* failing PUT of the user, and both were redirected to the returnUrl with userId=1
C36_Witness ==
    /\ probe.fn = "twin"
    /\ Len(probe.runs) = 2
    /\ probe.runs[1].state = TwinRequest(Str(<<117>>)).state
    /\ probe.runs[2].state = TwinRequest(Str(<<118>>)).state
    /\ probe.runs[1].answers = probe.runs[2].answers
    /\ Len(probe.runs[1].answers) = 5
    /\ probe.runs[1].answers[5] = [request |-> "callback:put", response |-> "status"]
    /\ probe.runs[1].effects.res.status = 302
    /\ probe.runs[1].effects.userId = Str(<<49>>)
    /\ probe.runs[2].effects.calls[Len(probe.runs[2].effects.calls)] = "PUT user"

\* -- the user id of two users

\* C31: the user id is injective in the e-mail address: two users with different
\* addresses get different ids, so that the create-or-update and generateSsoUrl
\* requests of one (both to /users/<id>) never go to the record of the other.
C31_UserIdInjective ==
    (probe.fn = "apimUserId" /\ probe.emails[1] # probe.emails[2])
    => probe.ids[1] # probe.ids[2]

\* the users a.a@x.y and a_a@x.y both have the id a_a_x_y
C31_Witness ==
    /\ probe.fn = "apimUserId"
    /\ probe.emails = << <<97, 46, 97, 64, 120, 46, 121>>,
                         <<97, 95, 97, 64, 120, 46, 121>> >>
    /\ probe.ids[1] = <<97, 95, 97, 95, 120, 95, 121>>
    /\ probe.ids[2] = probe.ids[1]

\* -- validateApimSignature called directly

SignatureChecked == probe.fn = "validateApimSignature"

\* the field of the checked request that its operation has signed
ProbeField ==
    SignedField(probe.operation.val, probe.returnUrl, probe.userId)

\* C1: validateApimSignature accepts exactly when the validation key is configured, a
\* signature is supplied, the operation is one of the six of the table, and the signature
\* is base64(HMAC-SHA512(decoded key, salt + "\n" + returnUrl)) for SignIn and SignUp,
\* (..., salt + "\n" + userId) for the other four; what the gateway signed for a request
\* validates with it, and no longer does once the salt, the signed field or the
\* signature is changed.
C1_SignatureValidation ==
    SignatureChecked =>
    /\ probe.result <=>
         /\ KeyConfigured
         /\ probe.origin.sig.present
         /\ probe.origin.sig # SigText(<<>>)
         /\ probe.operation.set
         /\ probe.operation.val \in CanonicalOps
         /\ probe.origin.sig = SignedBy(GatewayKeyBytes, probe.salt, ProbeField)
    /\ (/\ KeyConfigured
        /\ probe.operation.set
        /\ probe.operation.val \in CanonicalOps
        /\ probe.origin.signed
        /\ probe.origin.key = GatewayKeyBytes
        /\ probe.origin.salt.present /\ probe.origin.field.present
        /\ probe.salt.present /\ ProbeField.present)
       => /\ (probe.origin.salt = probe.salt /\ probe.origin.field = ProbeField)
               => probe.result
          /\ (probe.origin.salt # probe.salt /\ probe.origin.field = ProbeField)
               => ~probe.result
          /\ (probe.origin.salt = probe.salt /\ probe.origin.field # ProbeField)
               => ~probe.result
    /\ (KeyConfigured /\ probe.origin.signed /\ probe.origin.key # GatewayKeyBytes)
       => ~probe.result

\* a signed SignOut with a salt and a user id was accepted
C1_Witness ==
    /\ SignatureChecked
    /\ probe.operation = Val("SignOut")
    /\ probe.salt = Str(<<97>>)
    /\ probe.userId = Str(<<10>>)
    /\ probe.returnUrl = Str(<<97>>)
    /\ probe.result

\* -- the canonical string

HasLineFeed(t) == \E i \in DOMAIN t : t[i] = 10

\* the gateway signed, for the operation of the checked request, a salt and a field that
\* are not both those of the request
SignedForAnotherPair ==
    /\ SignatureChecked
    /\ KeyConfigured
    /\ probe.operation.set
    /\ probe.operation.val \in CanonicalOps
    /\ probe.origin.signed
    /\ probe.origin.key = GatewayKeyBytes
    /\ \/ ToStr(probe.origin.salt) # ToStr(probe.salt)
       \/ ToStr(probe.origin.field) # ToStr(ProbeField)

\* the canonical string of the checked request is not that of the pair the gateway
\* signed, and the signature is refused
CanonicalStringsDiffer ==
    /\ StringToSign(probe.operation, probe.salt, probe.returnUrl, probe.userId).text
         # StringToSign(probe.operation, probe.origin.salt, probe.origin.field,
                        probe.origin.field).text
    /\ ~probe.result

\* C30 as stated: requests of one operation class whose (salt, returnUrl) or
\* (salt, userId) pairs differ never have the same canonical string, so that a signature
\* issued for one pair never validates a request with another.
C30_CanonicalStringBindsPair ==
    SignedForAnotherPair => CanonicalStringsDiffer

\* C30: the canonical string binds the signed pair when neither salt has a line feed:
\* two such requests of one operation class with different pairs have different
\* canonical strings, and the signature issued for one does not validate the other.
C30_BindsPairWithoutLineFeed ==
    (/\ SignedForAnotherPair
     /\ ~HasLineFeed(ToStr(probe.salt))
     /\ ~HasLineFeed(ToStr(probe.origin.salt)))
    => CanonicalStringsDiffer

\* the gateway signed the salt "" with the returnUrl "a"; a SignIn with the salt "a" and
\* the returnUrl "" was refused with that signature
C30_Witness ==
    /\ SignedForAnotherPair
    /\ probe.operation = Val("SignIn")
    /\ probe.salt = Str(<<97>>)
    /\ probe.returnUrl = Str(<<>>)
    /\ probe.origin.salt = Str(<<>>)
    /\ probe.origin.field = Str(<<97>>)
    /\ ~probe.result

\* -- the state codec called directly

\* C10: decoding, as the callback handler does, the state string the delegation handler
\* encodes for a record {returnUrl, salt, userId, timestamp} yields a record with the
\* same returnUrl, salt, userId (an absent one included) and timestamp.
C10_StateRoundTrip ==
    probe.fn = "decode" =>
    /\ probe.decoded.ok
    /\ probe.decoded.val.t = "object"
    /\ SameField(Member(probe.decoded.val, KeyReturnUrl), probe.returnUrl)
    /\ SameField(Member(probe.decoded.val, KeySalt), probe.salt)
    /\ SameField(Member(probe.decoded.val, KeyUserId), probe.userId)
    /\ Member(probe.decoded.val, KeyTimestamp) = JNum(probe.timestamp)

\* a record without a userId, with a quote and a backslash in its salt and a non-ASCII
\* character in its returnUrl, was encoded and decoded
C10_Witness ==
    /\ probe.fn = "decode"
    /\ ~probe.userId.present
    /\ probe.salt = Str(<<92, 34>>)
    /\ probe.returnUrl = Str(<<233>>)
    /\ probe.timestamp = StartTime
    /\ probe.decoded.ok

====
